---- MODULE Spec2Model ----
(***************************************************************************)
(* Template pipeline of the Angular compiler: the phases                   *)
(* createI18nContexts, resolveSanitizers and resolveDollarEvent and the    *)
(* terminal reify pass, over a compilation job of units, each with a       *)
(* create and an update op-list.                                           *)
(***************************************************************************)
EXTENDS Integers, Sequences, FiniteSets, TLC

VARIABLES
  units,        \* job.units: sequence of units [xref, fnName, decls, vars, create, update]
  nextXref,     \* the job's id allocator (job.allocateXrefId)
  pc,           \* position of the running pass
  err,          \* the error the pass aborted with, "none" while none was thrown
  cur,          \* [u, i]: the op the loop of the running phase is at
  currentI18nOp,\* createI18nContexts: local currentI18nOp, as [u, i] or NoOp
  rootContexts, \* createI18nContexts: local Map rootContexts, as a set of <<root, ctx>>
  snap          \* the job as it was handed to the pass (for relating output to input)

vars == <<units, nextXref, pc, err, cur, currentI18nOp, rootContexts, snap>>

----------------------------------------------------------------------------
(* Bounds of the model. *)

\* most ops in all op-lists of a job handed to reify
MaxOps == 2

\* depth of the expression trees the ops hold
MaxDepth == 2

\* most update ops in all units of a job handed to resolveSanitizers
MaxSanOps == 2

\* most segments (i18n blocks, ICUs outside a block, texts) in all create lists of a
\* job handed to createI18nContexts
MaxI18nSegs == 2

\* most create ops of the root view of a job handed to resolveDollarEvent
MaxEventOps == 2

----------------------------------------------------------------------------
(* Values. *)

\* a number-typed cell that is null (SlotHandle.slot, decls, vars, xref)
NULL == -1

\* a string-typed cell that is null
NullStr == "null"

RECURSIVE SeqsUpTo(_, _)
\* all sequences over S of length 0..n
SeqsUpTo(S, n) ==
  IF n = 0 THEN {<<>>}
  ELSE LET shorter == SeqsUpTo(S, n - 1)
       IN shorter \cup {Append(s, x) : s \in {t \in shorter : Len(t) = n - 1}, x \in S}

----------------------------------------------------------------------------
(* Expressions: o.Expression and ir.Expression nodes.  An expression is    *)
(* [kind, name, num, sub]; sub holds the child expressions.                *)

Expr(kind, name, num, sub) == [kind |-> kind, name |-> name, num |-> num, sub |-> sub]

\* expression kinds of the IR (ir.ExpressionKind); the rest are output kinds
IrExpressionKinds ==
  { "LexicalRead", "Context", "ReadVariable", "NextContext", "Reference",
    "GetCurrentView", "RestoreView", "ResetView", "PureFunctionExpr",
    "PureFunctionParameterExpr", "PipeBinding", "PipeBindingVariadic",
    "SafePropertyRead", "SafeKeyedRead", "SafeInvokeFunction", "EmptyExpr",
    "AssignTemporaryExpr", "ReadTemporaryExpr", "SanitizerExpr", "SlotLiteralExpr",
    "ConditionalCase", "DerivedRepeaterVar" }

isIrExpression(expr) == expr.kind \in IrExpressionKinds

\* the value standing for "this evaluation threw"
Thrown(msg) == Expr("Thrown", msg, NULL, <<>>)

IsThrown(expr) == expr.kind = "Thrown"

Lit == Expr("LiteralExpr", "x", NULL, <<>>)
ReadVar(name) == Expr("ReadVarExpr", name, NULL, <<>>)
ReadProp(recv, name) == Expr("ReadPropExpr", name, NULL, <<recv>>)
LexicalRead(name) == Expr("LexicalRead", name, NULL, <<>>)

\* an instruction call built by the instruction helpers (ng.*)
Call(instr, num, args) == Expr("InvokeFunctionExpr", instr, num, args)

----------------------------------------------------------------------------
(* Reification of expressions. *)

\* the switch of reifyIrExpression over expr.kind
reifyIrExpressionSwitch(expr) ==
  CASE expr.kind = "NextContext" -> Call("nextContext", expr.num, <<>>)
    [] expr.kind = "Reference" -> Call("reference", expr.num, <<>>)
    [] expr.kind = "LexicalRead" -> Thrown("AssertionError: unresolved LexicalRead")
    [] expr.kind = "RestoreView" ->
         IF expr.num # NULL THEN Thrown("AssertionError: unresolved RestoreView")
         ELSE Call("restoreView", NULL, expr.sub)
    [] expr.kind = "ResetView" -> Call("resetView", NULL, expr.sub)
    [] expr.kind = "GetCurrentView" -> Call("getCurrentView", NULL, <<>>)
    [] expr.kind = "ReadVariable" ->
         IF expr.name = NullStr THEN Thrown("Read of unnamed variable")
         ELSE ReadVar(expr.name)
    [] expr.kind = "ReadTemporaryExpr" ->
         IF expr.name = NullStr THEN Thrown("Read of unnamed temporary")
         ELSE ReadVar(expr.name)
    [] expr.kind = "AssignTemporaryExpr" ->
         IF expr.name = NullStr THEN Thrown("Assign of unnamed temporary")
         ELSE Expr("WriteVarExpr", expr.name, NULL, expr.sub)
    [] expr.kind = "PureFunctionExpr" ->
         IF expr.name = NullStr
         THEN Thrown("AssertionError: expected PureFunctions to have been extracted")
         ELSE Call("pureFunction", expr.num, expr.sub)
    [] expr.kind = "PureFunctionParameterExpr" ->
         Thrown("AssertionError: expected PureFunctionParameterExpr to have been extracted")
    [] expr.kind = "PipeBinding" -> Call("pipeBind", expr.num, expr.sub)
    [] expr.kind = "PipeBindingVariadic" -> Call("pipeBindV", expr.num, expr.sub)
    [] expr.kind = "SanitizerExpr" -> Expr("ExternalExpr", expr.name, NULL, <<>>)
    [] expr.kind = "SlotLiteralExpr" -> Expr("LiteralExpr", "slot", expr.num, <<>>)
    [] OTHER -> Thrown("AssertionError: Unsupported reification of ir.Expression kind")

\* reifyIrExpression with a LexicalRead case that returns the read as it is
reifyIrExpression_PassLexicalRead(expr) ==
  IF ~isIrExpression(expr) \/ expr.kind = "LexicalRead" THEN expr
  ELSE reifyIrExpressionSwitch(expr)

\* reifyIrExpression: one expression node, its children already reified
reifyIrExpression(expr) ==
  IF ~isIrExpression(expr) THEN expr
  ELSE reifyIrExpressionSwitch(expr)

\* the first thrown value among the expressions es, or Lit when none threw
FirstThrown(es) ==
  IF \E i \in 1..Len(es) : IsThrown(es[i])
  THEN es[CHOOSE i \in 1..Len(es) : IsThrown(es[i]) /\ \A j \in 1..(i - 1) : ~IsThrown(es[j])]
  ELSE Lit

\* the callback that rewrites the read and leaves op.consumesDollarEvent as it is
dollarEventTransform_FlagNotSet(expr) ==
  IF expr.kind = "LexicalRead" /\ expr.name = "$event"
  THEN [e |-> ReadVar(expr.name), hit |-> FALSE]
  ELSE [e |-> expr, hit |-> FALSE]

\* the callback resolveDollarEvent hands to transformExpressionsInOp: the rewritten
\* expression, and whether the callback set op.consumesDollarEvent
dollarEventTransform(expr) ==
  IF expr.kind = "LexicalRead" /\ expr.name = "$event"
  THEN [e |-> ReadVar(expr.name), hit |-> TRUE]
  ELSE [e |-> expr, hit |-> FALSE]

\* the two callbacks the passes hand to transformExpressionsInOp
ApplyTransform(transform, expr) ==
  IF transform = "reifyIrExpression"
  THEN [e |-> reifyIrExpression(expr), hit |-> FALSE]
  ELSE dollarEventTransform(expr)

RECURSIVE transformExpressionsInExpression(_, _)
\* transformExpressionsInExpression: children first (transformInternalExpressions),
\* then the node itself; a throw anywhere is the result
transformExpressionsInExpression(expr, transform) ==
  LET Own(subs, own) == [e |-> own.e, hit |-> own.hit \/ \E i \in 1..Len(subs) : subs[i].hit]
      Self(subs, subExprs, thrown) ==
        IF IsThrown(thrown) THEN [e |-> thrown, hit |-> FALSE]
        ELSE Own(subs, ApplyTransform(transform, [expr EXCEPT !.sub = subExprs]))
      Children(subs) ==
        Self(subs, [i \in 1..Len(subs) |-> subs[i].e],
             FirstThrown([i \in 1..Len(subs) |-> subs[i].e]))
  IN Children([i \in 1..Len(expr.sub) |->
                 transformExpressionsInExpression(expr.sub[i], transform)])

RECURSIVE HasIrExpression(_)
\* whether an IR expression kind occurs anywhere in the tree
HasIrExpression(expr) ==
  isIrExpression(expr) \/ \E i \in 1..Len(expr.sub) : HasIrExpression(expr.sub[i])

RECURSIVE HasLexicalRead(_, _)
\* whether a LexicalRead of the given name occurs anywhere in the tree
HasLexicalRead(expr, name) ==
  (expr.kind = "LexicalRead" /\ expr.name = name)
    \/ \E i \in 1..Len(expr.sub) : HasLexicalRead(expr.sub[i], name)

----------------------------------------------------------------------------
(* Ops of the reified lists.  Every op has the same fields:                *)
(*   kind      ir.OpKind                                                   *)
(*   instr     the instruction a Statement op calls ("" otherwise)         *)
(*   slot      handle.slot / targetSlot.slot / trigger.targetSlot.slot     *)
(*   xref      op.xref (the child view of a Template or RepeaterCreate)    *)
(*   exprs     the expressions the op holds                                *)
(*   interp    whether op.expression is an ir.Interpolation                *)
(*   aux       Namespace.active, variable.name, trigger.kind, "array" for  *)
(*             an unextracted localRefs, "animation", "unprocessed"        *)
(*   num       targetSlotViewSteps, emptyView                              *)
(*   handlerOps, consumesDollarEvent   of a Listener                       *)
(*   params    parameters of the handler function a listener call takes    *)
(*   fnName, decls, vars   view metadata a template/repeater call takes    *)
(*   args      number arguments of a deferOn call                          *)

MkOp(kind, slot, xref, exprs, aux, num) ==
  [ kind |-> kind, instr |-> "", slot |-> slot, xref |-> xref, exprs |-> exprs,
    interp |-> FALSE, aux |-> aux, num |-> num, handlerOps |-> <<>>,
    consumesDollarEvent |-> FALSE, params |-> <<>>,
    fnName |-> NullStr, decls |-> NULL, vars |-> NULL, args |-> <<>> ]

\* ir.createStatementOp: a statement written by hand (return, expression, declare)
createStatementOp(stmt, exprs) ==
  [MkOp("Statement", NULL, NULL, exprs, "", NULL) EXCEPT !.instr = stmt]

\* ir.createListenerOp, with the handler ops pushed by ingestion
createListenerOp(slot, handlerOps, aux) ==
  [MkOp("Listener", slot, NULL, <<>>, aux, NULL) EXCEPT !.handlerOps = handlerOps]

\* ir.createDeferOp, with the times ingestDeferBlock assigns: a number, or null
createDeferOp(slot, placeholderMinimumTime, loadingMinimumTime, loadingAfterTime) ==
  MkOp("Defer", slot, NULL, <<>>, "", NULL)
    @@ [ placeholderMinimumTime |-> placeholderMinimumTime,
         loadingMinimumTime |-> loadingMinimumTime,
         loadingAfterTime |-> loadingAfterTime, timerScheduling |-> FALSE ]

\* the instruction helpers (ng.*): a Statement op calling instr with what op carries
ngCall(instr, op) == [op EXCEPT !.kind = "Statement", !.instr = instr]

\* job.views.get(xref): the units with that xref (none: undefined)
viewsGet(job, xref) == {i \in 1..Len(job) : job[i].xref = xref}

\* result of processing one op or one list: what it became, and the error thrown
Ok(x) == [val |-> x, err |-> "none"]
Throw(x, msg) == [val |-> x, err |-> msg]

RECURSIVE transformExpressionsInOp(_, _)
\* ir.transformExpressionsInOp: every expression of op, and of the handler ops of a
\* Listener, goes through the callback; hit tells whether the callback set its flag
transformExpressionsInOp(op, transform) ==
  LET Result(es, hs, thrownE, badH) ==
        IF IsThrown(thrownE) THEN [val |-> op, err |-> thrownE.name, hit |-> FALSE]
        ELSE IF badH # {}
        THEN [val |-> op, err |-> hs[CHOOSE i \in badH : \A j \in badH : i <= j].err,
              hit |-> FALSE]
        ELSE [val |-> [op EXCEPT !.exprs = [i \in 1..Len(es) |-> es[i].e],
                                 !.handlerOps = [i \in 1..Len(hs) |-> hs[i].val]],
              err |-> "none",
              hit |-> (\E i \in 1..Len(es) : es[i].hit) \/ (\E i \in 1..Len(hs) : hs[i].hit)]
      Visit(es, hs) ==
        Result(es, hs, FirstThrown([i \in 1..Len(es) |-> es[i].e]),
               {i \in 1..Len(hs) : hs[i].err # "none"})
  IN Visit([i \in 1..Len(op.exprs) |->
              transformExpressionsInExpression(op.exprs[i], transform)],
           [i \in 1..Len(op.handlerOps) |->
              transformExpressionsInOp(op.handlerOps[i], transform)])


----------------------------------------------------------------------------
(* Reification of update ops. *)

\* the switch of reifyUpdateOperations over op.kind, for an op whose expressions
\* are reified
reifyUpdateSwitch(op) ==
  CASE op.kind = "Advance" -> Ok(ngCall("advance", op))
    [] op.kind = "Property" ->
         Ok(ngCall(IF op.interp THEN "propertyInterpolate" ELSE "property", op))
    [] op.kind = "StyleProp" ->
         Ok(ngCall(IF op.interp THEN "stylePropInterpolate" ELSE "styleProp", op))
    [] op.kind = "ClassProp" -> Ok(ngCall("classProp", op))
    [] op.kind = "StyleMap" ->
         Ok(ngCall(IF op.interp THEN "styleMapInterpolate" ELSE "styleMap", op))
    [] op.kind = "ClassMap" ->
         Ok(ngCall(IF op.interp THEN "classMapInterpolate" ELSE "classMap", op))
    [] op.kind = "I18nExpression" -> Ok(ngCall("i18nExp", op))
    [] op.kind = "I18nApply" -> Ok(ngCall("i18nApply", op))
    [] op.kind = "InterpolateText" -> Ok(ngCall("textInterpolate", op))
    [] op.kind = "Attribute" ->
         Ok(ngCall(IF op.interp THEN "attributeInterpolate" ELSE "attribute", op))
    [] op.kind = "HostProperty" ->
         IF op.interp THEN Throw(op, "not yet handled")
         ELSE Ok(ngCall(IF op.aux = "animation" THEN "syntheticHostProperty"
                        ELSE "hostProperty", op))
    [] op.kind = "Variable" ->
         IF op.aux = NullStr THEN Throw(op, "AssertionError: unnamed variable")
         ELSE Ok(ngCall("DeclareVarStmt", op))
    [] op.kind = "Conditional" ->
         IF op.aux = "unprocessed" THEN Throw(op, "Conditional test was not set.")
         ELSE IF op.slot = NULL THEN Throw(op, "Conditional slot was not set.")
         ELSE Ok(ngCall("conditional", op))
    [] op.kind = "Repeater" -> Ok(ngCall("repeater", op))
    [] op.kind = "DeferWhen" -> Ok(ngCall("deferWhen", op))
    [] op.kind = "Statement" -> Ok(op)
    [] OTHER -> Throw(op, "AssertionError: Unsupported reification of update op")

\* one turn of the loop of reifyUpdateOperations
reifyUpdateOp(op) ==
  LET Switch(t) == IF t.err # "none" THEN Throw(op, t.err) ELSE reifyUpdateSwitch(t.val)
  IN Switch(transformExpressionsInOp(op, "reifyIrExpression"))

RECURSIVE reifyUpdateOperations(_)
\* reifyUpdateOperations: the ops in order, each replaced in place; a throw leaves
\* the op that threw and the ops after it as they were
reifyUpdateOperations(ops) ==
  LET Rest(r, rest) == [val |-> <<r.val>> \o rest.val, err |-> rest.err]
      First(r) == IF r.err # "none" THEN Throw(ops, r.err)
                  ELSE Rest(r, reifyUpdateOperations(Tail(ops)))
  IN IF ops = <<>> THEN Ok(<<>>) ELSE First(reifyUpdateOp(Head(ops)))

\* reifyListenerHandler: the handler ops reified, then the function expression,
\* carried by the listener op as handlerOps (the body) and params
reifyListenerHandler(op) ==
  LET Fn(r) ==
        IF r.err # "none" THEN Throw(op, r.err)
        ELSE IF \E i \in 1..Len(r.val) : r.val[i].kind # "Statement"
        THEN Throw(op, "AssertionError: expected reified statements")
        ELSE Ok([op EXCEPT !.handlerOps = r.val,
                           !.params = IF op.consumesDollarEvent THEN <<"$event">> ELSE <<>>])
  IN Fn(reifyUpdateOperations(op.handlerOps))

----------------------------------------------------------------------------
(* Reification of create ops. *)

\* case Template: the child view's fnName, decls and vars go into the call unchecked
\* (fnName!, decls!, vars!); a child view that is not in job.views is a TypeError
reifyTemplate(job, unit, op) ==
  IF ~unit.isView THEN Throw(op, "AssertionError: must be compiling a component")
  ELSE IF op.aux = "array"
  THEN Throw(op, "AssertionError: local refs array should have been extracted into a constant")
  ELSE IF viewsGet(job, op.xref) = {} THEN Throw(op, "TypeError: childView is undefined")
  ELSE LET childView == job[CHOOSE i \in viewsGet(job, op.xref) : TRUE]
       IN Ok([ngCall("template", op) EXCEPT !.fnName = childView.fnName,
                                            !.decls = childView.decls,
                                            !.vars = childView.vars])

\* case Namespace with no inner case for Namespace.Math
reifyNamespace_NoMath(op) ==
  CASE op.aux = "HTML" -> Ok(ngCall("namespaceHTML", op))
    [] op.aux = "SVG" -> Ok(ngCall("namespaceSVG", op))
    [] OTHER -> Ok(op)

\* case Namespace: an inner switch over op.active, with no default
reifyNamespace(op) ==
  CASE op.aux = "HTML" -> Ok(ngCall("namespaceHTML", op))
    [] op.aux = "SVG" -> Ok(ngCall("namespaceSVG", op))
    [] op.aux = "Math" -> Ok(ngCall("namespaceMath", op))
    [] OTHER -> Ok(op)

\* case Defer: timerScheduling is the disjunction of the !! of the three times, and
\* !! of a number or null is false for null and for 0
reifyDefer(op) ==
  LET timerScheduling ==
        \/ (op.loadingMinimumTime # NULL /\ op.loadingMinimumTime # 0)
        \/ (op.loadingAfterTime # NULL /\ op.loadingAfterTime # 0)
        \/ (op.placeholderMinimumTime # NULL /\ op.placeholderMinimumTime # 0)
  IN Ok([ngCall("defer", op) EXCEPT !.timerScheduling = timerScheduling])

\* case DeferOn: the arguments by trigger kind
reifyDeferOn(op) ==
  CASE op.aux \in {"Idle", "Immediate"} -> Ok(ngCall("deferOn", op))
    [] op.aux = "Timer" -> Ok([ngCall("deferOn", op) EXCEPT !.args = <<op.num>>])
    [] op.aux \in {"Interaction", "Hover", "Viewport"} ->
         IF op.slot = NULL \/ op.num = NULL
         THEN Throw(op, "Slot or view steps not set in trigger reification")
         ELSE Ok([ngCall("deferOn", op) EXCEPT
                    !.args = IF op.num # 0 THEN <<op.slot, op.num>> ELSE <<op.slot>>])
    [] OTHER -> Throw(op, "AssertionError: Unsupported reification of defer trigger kind")

\* case RepeaterCreate: slot and view names are checked, op.decls and op.vars are not
reifyRepeaterCreate(job, unit, op) ==
  IF op.slot = NULL THEN Throw(op, "No slot was assigned for repeater instruction")
  ELSE IF ~unit.isView THEN Throw(op, "AssertionError: must be compiling a component")
  ELSE IF viewsGet(job, op.xref) = {} THEN Throw(op, "TypeError: repeaterView is undefined")
  ELSE LET repeaterView == job[CHOOSE i \in viewsGet(job, op.xref) : TRUE]
           emptyViews == viewsGet(job, op.num)
           emptyView == job[CHOOSE i \in emptyViews : TRUE]
       IN IF repeaterView.fnName = NullStr
          THEN Throw(op, "AssertionError: expected repeater primary view to have been named")
          ELSE IF op.num # NULL /\ emptyViews = {}
          THEN Throw(op, "AssertionError: repeater had empty view xref, but empty view was not found")
          ELSE IF op.num # NULL /\ (emptyView.fnName = NullStr \/ emptyView.decls = NULL
                                      \/ emptyView.vars = NULL)
          THEN Throw(op, "AssertionError: expected repeater empty view to have been named and counted")
          ELSE Ok([ngCall("repeaterCreate", op) EXCEPT !.fnName = repeaterView.fnName])

\* case Listener: the handler function, then listener or syntheticHostListener
reifyListener(op) ==
  LET Replace(h) ==
        IF h.err # "none" THEN h
        ELSE Ok(ngCall(IF op.aux = "hostAnimation" THEN "syntheticHostListener"
                       ELSE "listener", h.val))
  IN Replace(reifyListenerHandler(op))

\* the switch of reifyCreateOperations over op.kind, for an op whose expressions
\* are reified
reifyCreateSwitch(job, unit, op) ==
  CASE op.kind = "Text" -> Ok(ngCall("text", op))
    [] op.kind = "ElementStart" -> Ok(ngCall("elementStart", op))
    [] op.kind = "Element" -> Ok(ngCall("element", op))
    [] op.kind = "ElementEnd" -> Ok(ngCall("elementEnd", op))
    [] op.kind = "ContainerStart" -> Ok(ngCall("elementContainerStart", op))
    [] op.kind = "Container" -> Ok(ngCall("elementContainer", op))
    [] op.kind = "ContainerEnd" -> Ok(ngCall("elementContainerEnd", op))
    [] op.kind = "I18nStart" -> Ok(ngCall("i18nStart", op))
    [] op.kind = "I18nEnd" -> Ok(ngCall("i18nEnd", op))
    [] op.kind = "I18n" -> Ok(ngCall("i18n", op))
    [] op.kind = "Template" -> reifyTemplate(job, unit, op)
    [] op.kind = "DisableBindings" -> Ok(ngCall("disableBindings", op))
    [] op.kind = "EnableBindings" -> Ok(ngCall("enableBindings", op))
    [] op.kind = "Pipe" -> Ok(ngCall("pipe", op))
    [] op.kind = "Listener" -> reifyListener(op)
    [] op.kind = "Variable" ->
         IF op.aux = NullStr THEN Throw(op, "AssertionError: unnamed variable")
         ELSE Ok(ngCall("DeclareVarStmt", op))
    [] op.kind = "Namespace" -> reifyNamespace(op)
    [] op.kind = "Defer" -> reifyDefer(op)
    [] op.kind = "DeferOn" -> reifyDeferOn(op)
    [] op.kind = "ProjectionDef" -> Ok(ngCall("projectionDef", op))
    [] op.kind = "Projection" ->
         IF op.slot = NULL THEN Throw(op, "No slot was assigned for project instruction")
         ELSE Ok(ngCall("projection", op))
    [] op.kind = "RepeaterCreate" -> reifyRepeaterCreate(job, unit, op)
    [] op.kind = "Statement" -> Ok(op)
    [] OTHER -> Throw(op, "AssertionError: Unsupported reification of create op")

\* one turn of the loop of reifyCreateOperations
reifyCreateOp(job, unit, op) ==
  LET Switch(t) ==
        IF t.err # "none" THEN Throw(op, t.err) ELSE reifyCreateSwitch(job, unit, t.val)
  IN Switch(transformExpressionsInOp(op, "reifyIrExpression"))

RECURSIVE reifyCreateOperations(_, _, _)
\* reifyCreateOperations: the ops in order, each replaced in place; a throw leaves
\* the op that threw and the ops after it as they were
reifyCreateOperations(job, unit, ops) ==
  LET Rest(r, rest) == [val |-> <<r.val>> \o rest.val, err |-> rest.err]
      First(r) == IF r.err # "none" THEN Throw(ops, r.err)
                  ELSE Rest(r, reifyCreateOperations(job, unit, Tail(ops)))
  IN IF ops = <<>> THEN Ok(<<>>) ELSE First(reifyCreateOp(job, unit, Head(ops)))

----------------------------------------------------------------------------
(* The reify pass over the job. *)

\* a unit of the job; isView: a ViewCompilationUnit (a host-binding unit is not)
Unit(xref, isView, fnName, decls, nvars, create, update) ==
  [ xref |-> xref, isView |-> isView, fnName |-> fnName, decls |-> decls, vars |-> nvars,
    create |-> create, update |-> update ]

At(phase, at, u) == [phase |-> phase, at |-> at, u |-> u]

\* reify, first half of the loop body: reifyCreateOperations(unit, unit.create)
ReifyCreate ==
  /\ pc.phase = "reify" /\ pc.at = "create"
  /\ LET Replaced(r) ==
           /\ units' = [units EXCEPT ![pc.u].create = r.val]
           /\ err' = r.err
           /\ pc' = [pc EXCEPT !.at = IF r.err # "none" THEN "aborted" ELSE "update"]
     IN Replaced(reifyCreateOperations(units, units[pc.u], units[pc.u].create))
  /\ UNCHANGED <<nextXref, cur, currentI18nOp, rootContexts, snap>>

\* reify, second half of the loop body: reifyUpdateOperations(unit, unit.update),
\* then the next unit, or the return
ReifyUpdate ==
  /\ pc.phase = "reify" /\ pc.at = "update"
  /\ LET Replaced(r) ==
           /\ units' = [units EXCEPT ![pc.u].update = r.val]
           /\ err' = r.err
           /\ pc' = IF r.err # "none" THEN [pc EXCEPT !.at = "aborted"]
                    ELSE IF pc.u < Len(units) THEN At("reify", "create", pc.u + 1)
                    ELSE At("reify", "done", pc.u)
     IN Replaced(reifyUpdateOperations(units[pc.u].update))
  /\ UNCHANGED <<nextXref, cur, currentI18nOp, rootContexts, snap>>

\* reify returned without error
ReifyReturned == pc.phase = "reify" /\ pc.at = "done" /\ err = "none"

\* reify aborted with an error
ReifyAborted == pc.phase = "reify" /\ pc.at = "aborted" /\ err # "none"

\* no value for the locals of createI18nContexts
NoOp == [u |-> 0, i |-> 0]

----------------------------------------------------------------------------
(* Jobs handed to reify: a component job of a root view and one child     *)
(* view, or a host-binding job of one unit.                                *)

RootXref == 0
ChildXref == 1
\* an xref no view of the job has
MissingXref == 9

Slots == {0, NULL}

\* create ops with a SlotHandle that reify reads as handle.slot!
SlotCreateKinds ==
  { "Text", "ElementStart", "Element", "ContainerStart", "Container", "I18nStart", "I18n",
    "Pipe" }

\* create ops with neither slot nor expression
PlainCreateKinds ==
  { "ElementEnd", "ContainerEnd", "I18nEnd", "DisableBindings", "EnableBindings",
    "ProjectionDef" }

\* create op kinds reify has no case for
UnhandledCreateKinds == { "I18nContext", "IcuStart", "ExtractedAttribute" }

ReturnStmt(e) == createStatementOp("ReturnStatement", <<e>>)

RepeaterCreateOp(slot, xref, emptyView, counts) ==
  [MkOp("RepeaterCreate", slot, xref, <<Lit>>, "", emptyView) EXCEPT
     !.decls = counts, !.vars = counts]

CreatePool ==
  {MkOp(k, 0, NULL, <<>>, "", NULL) : k \in SlotCreateKinds}
  \cup {MkOp(k, NULL, NULL, <<>>, "", NULL) :
          k \in {"Text", "ElementStart", "I18nStart", "Pipe"}}
  \cup { createDeferOp(0, NULL, NULL, NULL), createDeferOp(NULL, NULL, NULL, NULL),
         createDeferOp(0, 100, NULL, NULL), createDeferOp(0, NULL, 100, NULL),
         createDeferOp(0, NULL, NULL, 100), createDeferOp(0, 0, NULL, NULL),
         createDeferOp(0, NULL, 0, 0) }
  \cup {MkOp(k, NULL, NULL, <<>>, "", NULL) : k \in PlainCreateKinds \cup UnhandledCreateKinds}
  \cup { MkOp("Template", 0, ChildXref, <<>>, "", NULL),
         MkOp("Template", NULL, ChildXref, <<>>, "", NULL),
         MkOp("Template", 0, MissingXref, <<>>, "", NULL),
         MkOp("Template", 0, ChildXref, <<>>, "array", NULL) }
  \cup { createListenerOp(0, <<ReturnStmt(Lit)>>, ""),
         createListenerOp(0, <<ReturnStmt(Lit)>>, "hostAnimation"),
         createListenerOp(0, <<ReturnStmt(LexicalRead("x"))>>, ""),
         createListenerOp(0, <<MkOp("Listener", 0, NULL, <<>>, "", NULL)>>, "") }
  \cup { MkOp("Variable", NULL, NULL, <<Lit>>, "v", NULL),
         MkOp("Variable", NULL, NULL, <<Lit>>, NullStr, NULL),
         MkOp("Variable", NULL, NULL, <<LexicalRead("x")>>, "v", NULL) }
  \cup {MkOp("Namespace", NULL, NULL, <<>>, a, NULL) : a \in {"HTML", "SVG", "Math"}}
  \cup {MkOp("DeferOn", NULL, NULL, <<>>, a, NULL) : a \in {"Idle", "Immediate", "Unknown"}}
  \cup { MkOp("DeferOn", NULL, NULL, <<>>, "Timer", 5),
         MkOp("DeferOn", 0, NULL, <<>>, "Hover", 0),
         MkOp("DeferOn", 0, NULL, <<>>, "Hover", 1),
         MkOp("DeferOn", NULL, NULL, <<>>, "Hover", 0),
         MkOp("DeferOn", 0, NULL, <<>>, "Hover", NULL),
         MkOp("DeferOn", 0, NULL, <<>>, "Interaction", 0),
         MkOp("DeferOn", 0, NULL, <<>>, "Viewport", 0) }
  \cup {MkOp("Projection", s, NULL, <<>>, "", NULL) : s \in Slots}
  \cup { RepeaterCreateOp(0, ChildXref, NULL, 2),
         RepeaterCreateOp(NULL, ChildXref, NULL, 2),
         RepeaterCreateOp(0, MissingXref, NULL, 2),
         RepeaterCreateOp(0, ChildXref, MissingXref, 2),
         RepeaterCreateOp(0, ChildXref, ChildXref, 2),
         RepeaterCreateOp(0, ChildXref, NULL, NULL) }
  \cup {createStatementOp("ExpressionStatement", <<Lit>>)}

UpdatePool ==
  {MkOp(k, NULL, NULL, <<Lit>>, "", NULL) :
     k \in {"Advance", "ClassProp", "I18nExpression", "InterpolateText", "Repeater",
            "DeferWhen", "Binding"}}
  \cup {[MkOp(k, NULL, NULL, <<Lit>>, "", NULL) EXCEPT !.interp = i] :
          k \in {"Property", "Attribute", "StyleProp", "StyleMap", "ClassMap"},
          i \in BOOLEAN}
  \cup { MkOp("HostProperty", NULL, NULL, <<Lit>>, "", NULL),
         MkOp("HostProperty", NULL, NULL, <<Lit>>, "animation", NULL),
         [MkOp("HostProperty", NULL, NULL, <<Lit>>, "", NULL) EXCEPT !.interp = TRUE] }
  \cup {MkOp("I18nApply", s, NULL, <<>>, "", NULL) : s \in Slots}
  \cup { MkOp("Variable", NULL, NULL, <<Lit>>, "v", NULL),
         MkOp("Variable", NULL, NULL, <<Lit>>, NullStr, NULL),
         MkOp("Variable", NULL, NULL, <<LexicalRead("x")>>, "v", NULL) }
  \cup { MkOp("Conditional", 0, NULL, <<Lit>>, "", NULL),
         MkOp("Conditional", NULL, NULL, <<Lit>>, "", NULL),
         MkOp("Conditional", 0, NULL, <<Lit>>, "unprocessed", NULL) }
  \cup {createStatementOp("ExpressionStatement", <<Lit>>)}

\* what the child view holds
ChildCreatePool == {MkOp("Text", s, NULL, <<>>, "", NULL) : s \in Slots}

ChildUpdatePool ==
  { MkOp("Advance", NULL, NULL, <<Lit>>, "", NULL),
    MkOp("Binding", NULL, NULL, <<Lit>>, "", NULL) }

\* what the unit of a host-binding job holds
HostCreatePool ==
  { createListenerOp(0, <<ReturnStmt(Lit)>>, "hostAnimation"),
    MkOp("Template", 0, ChildXref, <<>>, "", NULL),
    RepeaterCreateOp(0, ChildXref, NULL, 2) }

HostUpdatePool ==
  { MkOp("HostProperty", NULL, NULL, <<Lit>>, "", NULL),
    MkOp("HostProperty", NULL, NULL, <<Lit>>, "animation", NULL),
    [MkOp("HostProperty", NULL, NULL, <<Lit>>, "", NULL) EXCEPT !.interp = TRUE] }

\* the child view's fnName, decls and vars: assigned, or one of them still null
ChildMetas ==
  { [fnName |-> "Child_Template", decls |-> 1, vars |-> 0],
    [fnName |-> NullStr, decls |-> 1, vars |-> 0],
    [fnName |-> "Child_Template", decls |-> NULL, vars |-> 0],
    [fnName |-> "Child_Template", decls |-> 1, vars |-> NULL] }

\* whether an op of the list names the child view
NamesChild(ops) == \E i \in 1..Len(ops) : ops[i].xref = ChildXref \/ ops[i].num = ChildXref

\* whether the view has its function name and its counts
Counted(unit) == unit.fnName # NullStr /\ unit.decls # NULL /\ unit.vars # NULL

\* a component job: a root view and a child view, with at most n ops in all; the
\* child's name and counts may be missing only where an op of the root reads them
IsComponentJob(job, n, A, B, C, D) ==
  \E a \in SeqsUpTo(A, n) : \E b \in SeqsUpTo(B, n - Len(a)) :
  \E c \in SeqsUpTo(C, n - Len(a) - Len(b)) :
  \E d \in SeqsUpTo(D, n - Len(a) - Len(b) - Len(c)) :
  \E m \in ChildMetas :
    /\ Counted(m) \/ NamesChild(a)
    /\ job = << Unit(RootXref, TRUE, "Root_Template", 1, 0, a, b),
                Unit(ChildXref, TRUE, m.fnName, m.decls, m.vars, c, d) >>

\* a host-binding job: one unit that is no view, with at most n ops
IsHostJob(job, n, A, B) ==
  \E a \in SeqsUpTo(A, n) : \E b \in SeqsUpTo(B, n - Len(a)) :
    job = << Unit(RootXref, FALSE, "HostBindings", NULL, NULL, a, b) >>

InitReify ==
  /\ \/ IsComponentJob(units, MaxOps, CreatePool, UpdatePool, ChildCreatePool, ChildUpdatePool)
     \/ IsHostJob(units, MaxOps, HostCreatePool, HostUpdatePool)
  /\ nextXref = 2
  /\ pc = At("reify", "create", 1)
  /\ err = "none"
  /\ cur = NoOp /\ currentI18nOp = NoOp /\ rootContexts = {}
  /\ snap = units

NextReify == ReifyCreate \/ ReifyUpdate

SpecReify == InitReify /\ [][NextReify]_vars

----------------------------------------------------------------------------
(* Jobs whose ops hold expression trees: one expression of bounded depth   *)
(* at one place of the job, next to ops without expressions.               *)

ExprLeaves ==
  { Lit, ReadVar("v"), LexicalRead("x"), LexicalRead("$event"),
    Expr("Context", "", NULL, <<>>),
    Expr("NextContext", "", 1, <<>>),
    Expr("Reference", "", 0, <<>>),
    Expr("GetCurrentView", "", NULL, <<>>),
    Expr("RestoreView", "", 1, <<>>),
    Expr("ReadVariable", "v", NULL, <<>>),
    Expr("ReadVariable", NullStr, NULL, <<>>),
    Expr("ReadTemporaryExpr", "t", NULL, <<>>),
    Expr("ReadTemporaryExpr", NullStr, NULL, <<>>),
    Expr("PureFunctionParameterExpr", "", 0, <<>>),
    Expr("SanitizerExpr", "Html", NULL, <<>>),
    Expr("SlotLiteralExpr", "", 0, <<>>),
    Expr("EmptyExpr", "", NULL, <<>>),
    Expr("DerivedRepeaterVar", "", NULL, <<>>) }

\* the expressions that hold e as their child
Wrap(e) ==
  { ReadProp(e, "p"),
    Expr("RestoreView", "", NULL, <<e>>),
    Expr("ResetView", "", NULL, <<e>>),
    Expr("AssignTemporaryExpr", "t", NULL, <<e>>),
    Expr("AssignTemporaryExpr", NullStr, NULL, <<e>>),
    Expr("PureFunctionExpr", "fn", 0, <<e>>),
    Expr("PureFunctionExpr", NullStr, 0, <<e>>),
    Expr("PipeBinding", "", 0, <<e>>),
    Expr("PipeBindingVariadic", "", 0, <<e>>),
    Expr("SafePropertyRead", "p", NULL, <<e>>),
    Expr("SafeKeyedRead", "", NULL, <<e>>),
    Expr("SafeInvokeFunction", "", NULL, <<e>>),
    Expr("ConditionalCase", "", NULL, <<e>>) }

RECURSIVE ExprsOfDepth(_)
\* the expression trees of depth 1..d
ExprsOfDepth(d) ==
  IF d = 1 THEN ExprLeaves
  ELSE LET shallower == ExprsOfDepth(d - 1)
       IN shallower \cup UNION {Wrap(e) : e \in shallower}

\* the job with expression e at one place: the root view's create list (a variable,
\* or the handler of a listener), its update list, or the child view's update list
ExprJobs(e) ==
  LET text == MkOp("Text", 0, NULL, <<>>, "", NULL)
      advance == MkOp("Advance", NULL, NULL, <<Lit>>, "", NULL)
      Job(a, b, d) == << Unit(RootXref, TRUE, "Root_Template", 1, 0, a, b),
                         Unit(ChildXref, TRUE, "Child_Template", 1, 0, <<text>>, d) >>
  IN { Job(<<text, MkOp("Variable", NULL, NULL, <<e>>, "v", NULL)>>, <<advance>>, <<>>),
       Job(<<createListenerOp(0, <<ReturnStmt(e)>>, ""), text>>, <<advance>>, <<>>),
       Job(<<text>>, <<advance, MkOp("Property", NULL, NULL, <<e>>, "", NULL)>>, <<>>),
       Job(<<text>>, <<MkOp("Variable", NULL, NULL, <<e>>, "v", NULL)>>, <<advance>>),
       Job(<<text>>, <<advance>>,
           <<MkOp("InterpolateText", NULL, NULL, <<e, Lit>>, "", NULL)>>) }

InitReifyExpr ==
  /\ \E e \in ExprsOfDepth(MaxDepth) : units \in ExprJobs(e)
  /\ nextXref = 2
  /\ pc = At("reify", "create", 1)
  /\ err = "none"
  /\ cur = NoOp /\ currentI18nOp = NoOp /\ rootContexts = {}
  /\ snap = units

SpecReifyExpr == InitReifyExpr /\ [][NextReify]_vars

----------------------------------------------------------------------------
(* resolveSanitizers.  Ops of this phase have the fields                   *)
(*   kind, xref, tag            of a create op                             *)
(*   kind, target, name, securityContext, sanitizer   of a binding op      *)

\* ir.SanitizerFn: a numeric enum, its members numbered in declaration order
SanitizerFn ==
  [Html |-> 0, Script |-> 1, Style |-> 2, Url |-> 3, ResourceUrl |-> 4, IframeAttribute |-> 5]

\* the members of SecurityContext
SecurityContexts == {"NONE", "HTML", "STYLE", "SCRIPT", "URL", "RESOURCE_URL"}

\* the table sanitizers: security context -> sanitizer function
sanitizers ==
  [HTML |-> SanitizerFn.Html, SCRIPT |-> SanitizerFn.Script, STYLE |-> SanitizerFn.Style,
   URL |-> SanitizerFn.Url, RESOURCE_URL |-> SanitizerFn.ResourceUrl]

\* sanitizers.get(ctx): the entry, or NULL for undefined
sanitizersGet(ctx) == IF ctx \in DOMAIN sanitizers THEN sanitizers[ctx] ELSE NULL

\* what a condition makes of a value of type number | null | undefined
Truthy(x) == x # NULL /\ x # 0

\* String.prototype.toLowerCase over the strings of the model
toLowerCase(str) ==
  CASE str = "IFRAME" -> "iframe"
    [] str = "SandBox" -> "sandbox"
    [] OTHER -> str

\* the attribute names isIframeSecuritySensitiveAttr knows, in lower case
IFRAME_SECURITY_SENSITIVE_ATTRS ==
  {"sandbox", "allow", "allowfullscreen", "referrerpolicy", "csp", "fetchpriority"}

isIframeSecuritySensitiveAttr(attrName) ==
  toLowerCase(attrName) \in IFRAME_SECURITY_SENSITIVE_ATTRS

\* ir.isElementOrContainerOp
isElementOrContainerOp(op) ==
  op.kind \in {"Element", "ElementStart", "Container", "ContainerStart", "Template",
               "RepeaterCreate"}

\* ir.hasConsumesSlotTrait for the create ops of this phase
hasConsumesSlotTrait(op) ==
  op.kind \in {"Element", "ElementStart", "Container", "ContainerStart", "Template",
               "RepeaterCreate", "Text"}

\* createOpXrefMap(unit): the slot-consuming create ops by xref; a later op with the
\* same xref replaces an earlier one.  elementsGet gives the index of the op, 0 for
\* undefined
elementsGet(unit, xref) ==
  LET hits == {i \in 1..Len(unit.create) :
                 hasConsumesSlotTrait(unit.create[i]) /\ unit.create[i].xref = xref}
  IN IF hits = {} THEN 0 ELSE CHOOSE i \in hits : \A j \in hits : j <= i

\* isIframeElement: only an ElementStart op whose tag is iframe in any case; a
\* missing tag is not iframe
isIframeElement(op) ==
  op.kind = "ElementStart" /\ op.tag # NullStr /\ toLowerCase(op.tag) = "iframe"

\* whether the op has an element-like owner in the unit
HasOwner(unit, op) ==
  elementsGet(unit, op.target) # 0
    /\ isElementOrContainerOp(unit.create[elementsGet(unit, op.target)])

\* the fallback of resolveSanitizers for an op left without sanitizer
iframeFallback(unit, op) ==
  IF ~HasOwner(unit, op) THEN Throw(op, "Property should have an element-like owner")
  ELSE IF isIframeElement(unit.create[elementsGet(unit, op.target)])
            /\ isIframeSecuritySensitiveAttr(op.name)
  THEN Ok([op EXCEPT !.sanitizer = SanitizerFn.IframeAttribute])
  ELSE Ok(op)

\* the body of the loop with the owner looked up for every binding op
resolveSanitizerOp_OwnerAlwaysChecked(unit, op) ==
  IF op.kind \notin {"Property", "Attribute"} THEN Ok(op)
  ELSE IF ~HasOwner(unit, op) THEN Throw(op, "Property should have an element-like owner")
  ELSE IF Truthy(sanitizersGet(op.securityContext))
  THEN Ok([op EXCEPT !.sanitizer = sanitizersGet(op.securityContext)])
  ELSE iframeFallback(unit, [op EXCEPT !.sanitizer = NULL])

\* the body of the loop keeping its hands off an op that has a sanitizer, and taking
\* the one of an op it had found none for
resolveSanitizerOp_ToggleResolved(unit, op) ==
  IF op.kind \notin {"Property", "Attribute"} THEN Ok(op)
  ELSE IF op.sanitizer # NULL THEN Ok([op EXCEPT !.sanitizer = NULL])
  ELSE LET sanitizerFn == IF Truthy(sanitizersGet(op.securityContext))
                          THEN sanitizersGet(op.securityContext) ELSE NULL
       IN IF Truthy(sanitizerFn) THEN Ok([op EXCEPT !.sanitizer = sanitizerFn])
          ELSE iframeFallback(unit, [op EXCEPT !.sanitizer = NULL])

\* the body of the loop over unit.update: sanitizerFn = sanitizers.get(..) || null;
\* op.sanitizer = sanitizerFn ? SanitizerExpr(sanitizerFn) : null; then the fallback
resolveSanitizerOp(unit, op) ==
  IF op.kind \notin {"Property", "Attribute"} THEN Ok(op)
  ELSE LET sanitizerFn == IF Truthy(sanitizersGet(op.securityContext))
                          THEN sanitizersGet(op.securityContext) ELSE NULL
       IN IF Truthy(sanitizerFn) THEN Ok([op EXCEPT !.sanitizer = sanitizerFn])
          ELSE iframeFallback(unit, [op EXCEPT !.sanitizer = NULL])

\* the op after the one at cur: the next op of the unit, the first op of a later
\* unit, or past the last unit
NextOp(job, at) ==
  IF at.i < Len(job[at.u].update) THEN [u |-> at.u, i |-> at.i + 1]
  ELSE LET later == {v \in (at.u + 1)..Len(job) : job[v].update # <<>>}
       IN IF later = {} THEN [u |-> Len(job) + 1, i |-> 0]
          ELSE [u |-> CHOOSE v \in later : \A w \in later : v <= w, i |-> 1]

\* resolveSanitizers, one turn of the inner loop: the op at cur
ResolveSanitizers ==
  /\ pc.phase = "resolveSanitizers" /\ pc.at = "run"
  /\ LET Assigned(r) ==
           /\ units' = [units EXCEPT ![cur.u].update[cur.i] = r.val]
           /\ err' = r.err
           /\ cur' = IF r.err # "none" THEN cur ELSE NextOp(units, cur)
           /\ pc' = IF r.err # "none" THEN [pc EXCEPT !.at = "aborted"]
                    ELSE IF NextOp(units, cur).u > Len(units) THEN [pc EXCEPT !.at = "done"]
                    ELSE pc
     IN Assigned(resolveSanitizerOp(units[cur.u], units[cur.u].update[cur.i]))
  /\ UNCHANGED <<nextXref, currentI18nOp, rootContexts, snap>>

SanElementOp(kind, xref, tag) ==
  [kind |-> kind, xref |-> xref, tag |-> tag, target |-> NULL, name |-> "",
   securityContext |-> "NONE", sanitizer |-> NULL]

SanBindingOp(kind, target, name, securityContext) ==
  [kind |-> kind, xref |-> NULL, tag |-> NullStr, target |-> target, name |-> name,
   securityContext |-> securityContext, sanitizer |-> NULL]

\* xrefs of the element of the root view and of the element of the child view
RootElementXref == 2
ChildElementXref == 3

\* what the create list of a view can hold for the element with that xref
SanCreateLists(xref) ==
  { <<>>,
    <<SanElementOp("ElementStart", xref, "iframe"), SanElementOp("ElementEnd", NULL, NullStr)>>,
    <<SanElementOp("ElementStart", xref, "IFRAME"), SanElementOp("ElementEnd", NULL, NullStr)>>,
    <<SanElementOp("ElementStart", xref, "div"), SanElementOp("ElementEnd", NULL, NullStr)>>,
    <<SanElementOp("ContainerStart", xref, NullStr)>>,
    <<SanElementOp("Template", xref, "iframe")>>,
    <<SanElementOp("Text", xref, NullStr)>> }

SanUpdatePool ==
  {SanBindingOp("Property", t, "sandbox", c) :
     t \in {RootElementXref, ChildElementXref}, c \in SecurityContexts}
  \cup {SanBindingOp("Property", t, "innerHTML", c) :
          t \in {RootElementXref, ChildElementXref}, c \in {"NONE", "HTML"}}
  \cup {SanBindingOp("Attribute", t, "SandBox", c) :
          t \in {RootElementXref, ChildElementXref}, c \in {"NONE", "URL"}}
  \cup {SanBindingOp("Advance", NULL, "", "NONE")}

\* the first op resolveSanitizers meets, or past the last unit
FirstOp(job) == NextOp(job, [u |-> 1, i |-> 0])

InitSan ==
  /\ \E a \in SanCreateLists(RootElementXref) :
     \E c \in {<<>>, <<SanElementOp("ElementStart", ChildElementXref, "iframe")>>} :
     \E b \in SeqsUpTo(SanUpdatePool, MaxSanOps) :
     \E d \in SeqsUpTo(SanUpdatePool, MaxSanOps - Len(b)) :
       /\ Len(b) + Len(d) > 0
       /\ c = <<>> => d = <<>>
       /\ units = << Unit(RootXref, TRUE, NullStr, NULL, NULL, a, b),
                     Unit(ChildXref, TRUE, NullStr, NULL, NULL, c, d) >>
  /\ nextXref = 4
  /\ cur = FirstOp(units)
  /\ pc = At("resolveSanitizers", "run", 0)
  /\ err = "none"
  /\ currentI18nOp = NoOp /\ rootContexts = {}
  /\ snap = units

NextSan == ResolveSanitizers

SpecSan == InitSan /\ [][NextSan]_vars

\* resolveSanitizers(job) called again on the job it returned: the loops start over
\* at the first op, on the ops as the first run left them.  pc.u counts the runs
\* that returned, snap is the job as handed to the run at hand.
ResolveSanitizersAgain ==
  /\ pc.phase = "resolveSanitizers" /\ pc.at = "done" /\ pc.u = 0
  /\ pc' = At("resolveSanitizers", IF FirstOp(units).u > Len(units) THEN "done" ELSE "run", 1)
  /\ cur' = FirstOp(units)
  /\ snap' = units
  /\ UNCHANGED <<units, nextXref, err, currentI18nOp, rootContexts>>

NextSanTwice == ResolveSanitizers \/ ResolveSanitizersAgain

SpecSanTwice == InitSan /\ [][NextSanTwice]_vars

----------------------------------------------------------------------------
(* createI18nContexts.  Ops of this phase have the fields                  *)
(*   kind, xref, root, message (the message id), context   of I18nStart    *)
(*   kind, xref, message, context                          of IcuStart     *)
(*   kind, xref, contextKind, i18nBlock, message           of I18nContext  *)

I18nOp(kind, xref, root, message) ==
  [kind |-> kind, xref |-> xref, root |-> root, message |-> message, context |-> NULL,
   contextKind |-> "", i18nBlock |-> NULL]

\* ir.createI18nContextOp(contextKind, xref, i18nBlock, message, sourceSpan)
createI18nContextOp(contextKind, xref, i18nBlock, message) ==
  [kind |-> "I18nContext", xref |-> xref, root |-> NULL, message |-> message,
   context |-> NULL, contextKind |-> contextKind, i18nBlock |-> i18nBlock]

\* rootContexts.get(key): the value, or NULL for undefined
rootContextsGet(roots, key) ==
  IF \E p \in roots : p[1] = key THEN (CHOOSE p \in roots : p[1] = key)[2] ELSE NULL

\* rootContexts.set(key, value)
rootContextsSet(roots, key, value) == {p \in roots : p[1] # key} \cup {<<key, value>>}

\* the op after the one at cur in the create lists, as they are now
NextCreateOp(job, at) ==
  IF at.i < Len(job[at.u].create) THEN [u |-> at.u, i |-> at.i + 1]
  ELSE LET later == {v \in (at.u + 1)..Len(job) : job[v].create # <<>>}
       IN IF later = {} THEN [u |-> Len(job) + 1, i |-> 0]
          ELSE [u |-> CHOOSE v \in later : \A w \in later : v <= w, i |-> 1]

\* the test that creates a context for every I18nStart op
isRootI18nBlock_Always(op) == TRUE

\* op.xref === op.root
isRootI18nBlock(op) == op.xref = op.root

\* currentI18nOp with no case for I18nEnd
currentI18nOpAfter_NoEndCase(op, at, current) ==
  IF op.kind = "I18nStart" THEN at ELSE current

\* what the switch makes of currentI18nOp: the op at an I18nStart, null at an I18nEnd
currentI18nOpAfter(op, at, current) ==
  CASE op.kind = "I18nStart" -> at
    [] op.kind = "I18nEnd" -> NoOp
    [] OTHER -> current

\* the context op pushed twice
withContextOp_PushedTwice(job, at, xref, contextOp) ==
  [job EXCEPT ![at.u].create =
     Append(Append([@ EXCEPT ![at.i].context = xref], contextOp), contextOp)]

\* the job after the op at cur got context xref and a new context op was pushed to
\* the create list of its unit
withContextOp(job, at, xref, contextOp) ==
  [job EXCEPT ![at.u].create = Append([@ EXCEPT ![at.i].context = xref], contextOp)]

\* one turn of the first loop: what the switch does to the job, the xref allocator and
\* rootContexts for the op at cur; current is currentI18nOp after the turn
visitI18nOp(job, at, current, roots, next) ==
  LET op == job[at.u].create[at.i]
      same == [job |-> job, roots |-> roots, next |-> next, err |-> "none"]
  IN CASE op.kind = "I18nStart" /\ isRootI18nBlock(op) ->
            [ job |-> withContextOp(job, at, next,
                        createI18nContextOp("RootI18n", next, op.xref, op.message)),
              roots |-> rootContextsSet(roots, op.xref, next),
              next |-> next + 1, err |-> "none" ]
       [] op.kind = "IcuStart" /\ current = NoOp ->
            [same EXCEPT !.err = "Unexpected ICU outside of an i18n block."]
       [] op.kind = "IcuStart" /\ current # NoOp ->
            IF op.message # job[current.u].create[current.i].message
            THEN [ job |-> withContextOp(job, at, next,
                             createI18nContextOp("Icu", next,
                               job[current.u].create[current.i].xref, op.message)),
                   roots |-> roots, next |-> next + 1, err |-> "none" ]
            ELSE [same EXCEPT
                    !.job[at.u].create[at.i].context = job[current.u].create[current.i].context]
       [] OTHER -> same

\* createI18nContexts, one turn of the first loop: the op at cur.  The iterator of the
\* op list takes the next op before the body runs, and the body pushes to the end of
\* the list, so that an op pushed at a turn that is not the last turn is met later
I18nVisit ==
  /\ pc.phase = "createI18nContexts" /\ pc.at = "first"
  /\ currentI18nOp' = currentI18nOpAfter(units[cur.u].create[cur.i], cur, currentI18nOp)
  /\ LET Visited(r) ==
           /\ units' = r.job
           /\ rootContexts' = r.roots
           /\ nextXref' = r.next
           /\ err' = r.err
           /\ cur' = IF r.err # "none" THEN cur ELSE NextCreateOp(units, cur)
           /\ pc' = IF r.err # "none" THEN [pc EXCEPT !.at = "aborted"]
                    ELSE IF NextCreateOp(units, cur).u > Len(units)
                    THEN [pc EXCEPT !.at = "second"]
                    ELSE pc
     IN Visited(visitI18nOp(units, cur, currentI18nOp', rootContexts, nextXref))
  /\ UNCHANGED snap

\* the lookup with the block's own xref as key
childContext_ByOwnXref(op, roots) == rootContextsGet(roots, op.xref)

\* rootContexts.get(op.root)!
childContext(op, roots) == rootContextsGet(roots, op.root)

\* createI18nContexts, the second loop: the child blocks get the context of their root
I18nAssignChildren ==
  /\ pc.phase = "createI18nContexts" /\ pc.at = "second"
  /\ units' = [u \in 1..Len(units) |->
                 [units[u] EXCEPT !.create =
                    [i \in 1..Len(units[u].create) |->
                       IF units[u].create[i].kind = "I18nStart"
                            /\ units[u].create[i].xref # units[u].create[i].root
                       THEN [units[u].create[i] EXCEPT
                               !.context = childContext(units[u].create[i], rootContexts)]
                       ELSE units[u].create[i]]]]
  /\ pc' = [pc EXCEPT !.at = "done"]
  /\ UNCHANGED <<nextXref, err, cur, currentI18nOp, rootContexts, snap>>

\* xrefs of the i18n blocks and of the ICUs by the number of their segment, and the
\* first xref the job has not allocated
BlockXrefBase == 10
IcuXrefBase == 20
FirstFreeXref == 30

\* a segment of a create list: a text, an ICU outside any block, a root i18n block or
\* a child i18n block of the root block in segment rootSeg; a block holds nothing, a
\* text, an ICU with the message of the block or an ICU with a message of its own
I18nSegs(n) ==
  {[type |-> "text", message |-> "", content |-> "none", rootSeg |-> 0],
   [type |-> "icu", message |-> "A", content |-> "none", rootSeg |-> 0]}
  \cup {[type |-> "root", message |-> m, content |-> c, rootSeg |-> 0] :
          m \in {"A", "B"}, c \in {"none", "text", "icuSame", "icuOther"}}
  \cup {[type |-> "child", message |-> "", content |-> c, rootSeg |-> r] :
          c \in {"none", "text", "icuSame", "icuOther"}, r \in 1..n}

\* the ops of segment k of segs
I18nSegOps(segs, k) ==
  LET seg == segs[k]
      message == IF seg.type = "child" THEN segs[seg.rootSeg].message ELSE seg.message
      icu(m) == << I18nOp("IcuStart", IcuXrefBase + k, NULL, m),
                   I18nOp("IcuEnd", IcuXrefBase + k, NULL, "") >>
      content == CASE seg.content = "text" -> <<I18nOp("Text", NULL, NULL, "")>>
                   [] seg.content = "icuSame" -> icu(message)
                   [] seg.content = "icuOther" -> icu("C")
                   [] OTHER -> <<>>
      root == IF seg.type = "child" THEN BlockXrefBase + seg.rootSeg ELSE BlockXrefBase + k
  IN CASE seg.type = "text" -> <<I18nOp("Text", NULL, NULL, "")>>
       [] seg.type = "icu" -> icu(message)
       [] OTHER -> <<I18nOp("I18nStart", BlockXrefBase + k, root, message)>> \o content
                     \o <<I18nOp("I18nEnd", BlockXrefBase + k, NULL, "")>>

RECURSIVE I18nCreateList(_, _, _)
\* the ops of the segments from..to of segs
I18nCreateList(segs, from, to) ==
  IF from > to THEN <<>>
  ELSE I18nSegOps(segs, from) \o I18nCreateList(segs, from + 1, to)

\* every child block names a root block of the job
WellFormedSegs(segs) ==
  \A k \in 1..Len(segs) :
    segs[k].type = "child" =>
      segs[k].rootSeg \in 1..Len(segs) /\ segs[segs[k].rootSeg].type = "root"

\* the first op createI18nContexts meets, or past the last unit
FirstCreateOp(job) == NextCreateOp(job, [u |-> 1, i |-> 0])

\* the job of a root view and a child view whose create lists hold the segments: the
\* first split in the root view, the others in the child view
InitI18n ==
  /\ \E segs \in SeqsUpTo(I18nSegs(MaxI18nSegs), MaxI18nSegs) : \E split \in 0..Len(segs) :
       /\ segs # <<>>
       /\ WellFormedSegs(segs)
       /\ units = << Unit(RootXref, TRUE, NullStr, NULL, NULL,
                          I18nCreateList(segs, 1, split), <<>>),
                     Unit(ChildXref, TRUE, NullStr, NULL, NULL,
                          I18nCreateList(segs, split + 1, Len(segs)), <<>>) >>
  /\ nextXref = FirstFreeXref
  /\ cur = FirstCreateOp(units)
  /\ pc = At("createI18nContexts", "first", 0)
  /\ err = "none"
  /\ currentI18nOp = NoOp
  /\ rootContexts = {}
  /\ snap = units

NextI18n == I18nVisit \/ I18nAssignChildren

SpecI18n == InitI18n /\ [][NextI18n]_vars

\* createI18nContexts as it runs: a loop that can take its next turn takes it
SpecI18nLive == SpecI18n /\ WF_vars(NextI18n)

\* createI18nContexts(job) called again on the job it returned: rootContexts and
\* currentI18nOp are new locals, the allocator is the job's, and the first loop
\* starts over at the first create op, the context ops of the first run among the
\* ops it meets.  pc.u counts the runs that returned, snap is the job as handed to
\* the run at hand.
CreateI18nContextsAgain ==
  /\ pc.phase = "createI18nContexts" /\ pc.at = "done" /\ pc.u = 0
  /\ pc' = At("createI18nContexts",
              IF FirstCreateOp(units).u > Len(units) THEN "second" ELSE "first", 1)
  /\ cur' = FirstCreateOp(units)
  /\ currentI18nOp' = NoOp
  /\ rootContexts' = {}
  /\ snap' = units
  /\ UNCHANGED <<units, nextXref, err>>

NextI18nTwice == I18nVisit \/ I18nAssignChildren \/ CreateI18nContextsAgain

SpecI18nTwice == InitI18n /\ [][NextI18nTwice]_vars

----------------------------------------------------------------------------
(* resolveDollarEvent, followed by reify. *)

\* transformDollarEvent(unit, ops): the expressions of every Listener op, handler ops
\* included, go through the callback, which sets consumesDollarEvent of the Listener
transformDollarEvent(ops) ==
  [i \in 1..Len(ops) |->
     IF ops[i].kind = "Listener"
     THEN LET Flagged(r) == [r.val EXCEPT !.consumesDollarEvent = @ \/ r.hit]
          IN Flagged(transformExpressionsInOp(ops[i], "dollarEvent"))
     ELSE ops[i]]

\* resolveDollarEvent: both lists of every unit
ResolveDollarEvent ==
  /\ pc.phase = "resolveDollarEvent"
  /\ units' = [u \in 1..Len(units) |->
                 [units[u] EXCEPT !.create = transformDollarEvent(units[u].create),
                                  !.update = transformDollarEvent(units[u].update)]]
  /\ pc' = At("reify", "create", 1)
  /\ UNCHANGED <<nextXref, err, cur, currentI18nOp, rootContexts, snap>>

\* what convertAst makes of the handler expressions of the model: $event read off
\* the implicit receiver, alone or below another expression, another name read off
\* the implicit receiver, and expressions without such a read
EventExprs ==
  { Lit, LexicalRead("$event"), ReadProp(LexicalRead("$event"), "target"),
    Expr("InvokeFunctionExpr", "onClick", NULL, <<ReadVar("ctx"), LexicalRead("$event")>>),
    ReadVar("$event") }

\* the handler ops ingestion gives a listener: expression statements, then a return
EventHandlers ==
  {<<ReturnStmt(e)>> : e \in EventExprs \cup {LexicalRead("x")}}
  \cup {<<createStatementOp("ExpressionStatement", <<e1>>), ReturnStmt(e2)>> :
          e1 \in {Lit, LexicalRead("$event")}, e2 \in EventExprs}

EventCreatePool ==
  {createListenerOp(0, h, "") : h \in EventHandlers}
  \cup { MkOp("Text", 0, NULL, <<>>, "", NULL),
         MkOp("Variable", NULL, NULL, <<LexicalRead("$event")>>, "v", NULL) }

EventUpdateLists ==
  { <<>>, <<MkOp("Advance", NULL, NULL, <<Lit>>, "", NULL)>>,
    <<MkOp("Property", NULL, NULL, <<LexicalRead("$event")>>, "", NULL)>> }

InitEvent ==
  /\ \E a \in SeqsUpTo(EventCreatePool, MaxEventOps) : \E b \in EventUpdateLists :
     \E c \in {<<>>, <<createListenerOp(0, <<ReturnStmt(LexicalRead("$event"))>>, "")>>,
               <<createListenerOp(0, <<ReturnStmt(Lit)>>, "")>>} :
       /\ a # <<>>
       /\ units = << Unit(RootXref, TRUE, "Root_Template", 1, 0, a, b),
                     Unit(ChildXref, TRUE, "Child_Template", 1, 0, c, <<>>) >>
  /\ nextXref = 2
  /\ pc = At("resolveDollarEvent", "run", 0)
  /\ err = "none"
  /\ cur = NoOp /\ currentI18nOp = NoOp /\ rootContexts = {}
  /\ snap = units

NextEvent == ResolveDollarEvent \/ ReifyCreate \/ ReifyUpdate

SpecEvent == InitEvent /\ [][NextEvent]_vars

----------------------------------------------------------------------------
(* Ingestion (ingest.ts): the nodes of a template AST into the views of a  *)
(* job.  A job under ingestion is [units, nextXref, err]: its views in the *)
(* order they were allocated (the root first), the id allocator and the    *)
(* error thrown; an operator handed a job that has thrown returns it as it *)
(* is, so what was pushed before the throw stays.                          *)

\* most children of a control-flow branch
MaxChildren == 2

\* job.allocateView(parent): a new view under a fresh xref; contextVariables is the
\* Map as its entries <<name, value>> in insertion order, aliases the Set as a
\* sequence (every add is a new object)
allocateView(job, parent) ==
  [job EXCEPT
     !.units = Append(@, [ xref |-> job.nextXref, parent |-> parent, create |-> <<>>,
                           update |-> <<>>, contextVariables |-> <<>>, aliases |-> <<>> ]),
     !.nextXref = @ + 1]

\* list.push(ops) on the create or the update list of unit u
push(job, u, list, ops) ==
  IF list = "create" THEN [job EXCEPT !.units[u].create = @ \o ops]
  ELSE [job EXCEPT !.units[u].update = @ \o ops]

\* a table keyed by the value instead of the name
mapSet_KeyedByValue(entries, key, value) ==
  IF \E i \in 1..Len(entries) : entries[i][1] = value
  THEN [i \in 1..Len(entries) |->
          IF entries[i][1] = value THEN <<value, value>> ELSE entries[i]]
  ELSE Append(entries, <<value, value>>)

\* Map.set(key, value): the entry of key replaced where it stands, or a new last entry
mapSet(entries, key, value) ==
  IF \E i \in 1..Len(entries) : entries[i][1] = key
  THEN [i \in 1..Len(entries) |-> IF entries[i][1] = key THEN <<key, value>> ELSE entries[i]]
  ELSE Append(entries, <<key, value>>)

\* a node of the template AST (t.Element, t.Template, t.Text, t.Comment): name is
\* Element.name or Template.tagName, i18n the class of the i18n metadata
TNode(kind, name, attributes, inputs, children) ==
  [ kind |-> kind, name |-> name, i18n |-> "undefined", attributes |-> attributes,
    inputs |-> inputs, outputs |-> <<>>, templateAttrs |-> <<>>, variables |-> <<>>,
    children |-> children ]

\* ir.createBindingOp
createBindingOp(xref, kind, name, expression, isTextAttribute, isStructuralTemplateAttribute) ==
  [ kind |-> "Binding", xref |-> xref, bindingKind |-> kind, name |-> name,
    exprs |-> <<expression>>, interp |-> expression.kind = "Interpolation",
    isTextAttribute |-> isTextAttribute,
    isStructuralTemplateAttribute |-> isStructuralTemplateAttribute ]

RECURSIVE convertAst_OfLastView(_, _)
\* the conversion with the context of the view allocated last in place of the root
\* view's
convertAst_OfLastView(ast, job) ==
  LET Sub(i) == convertAst_OfLastView(ast.sub[i], job)
      Build(kind, name, subs) ==
        IF \E i \in 1..Len(subs) : IsThrown(subs[i]) THEN FirstThrown(subs)
        ELSE Expr(kind, name, NULL, subs)
      isImplicit(r) == r.kind \in {"ImplicitReceiver", "ThisReceiver"}
  IN CASE ast.kind = "ASTWithSource" -> Sub(1)
       [] ast.kind = "PropertyRead" ->
            IF ast.sub[1].kind = "ImplicitReceiver" THEN LexicalRead(ast.name)
            ELSE Build("ReadPropExpr", ast.name, <<Sub(1)>>)
       [] ast.kind = "PropertyWrite" ->
            IF isImplicit(ast.sub[1])
            THEN Build("WritePropExpr", ast.name, <<Expr("Context", "", job.units[Len(job.units)].xref, <<>>), Sub(2)>>)
            ELSE Build("WritePropExpr", ast.name, <<Sub(1), Sub(2)>>)
       [] ast.kind = "Call" ->
            IF isImplicit(ast.sub[1]) THEN Thrown("Unexpected ImplicitReceiver")
            ELSE Build("InvokeFunctionExpr", "", [i \in 1..Len(ast.sub) |-> Sub(i)])
       [] ast.kind = "LiteralPrimitive" -> Expr("LiteralExpr", ast.name, NULL, <<>>)
       [] ast.kind = "ThisReceiver" -> Expr("Context", "", job.units[Len(job.units)].xref, <<>>)
       [] ast.kind = "Chain" -> Thrown("AssertionError: Chain in unknown context")
       [] ast.kind = "NonNullAssert" -> Sub(1)
       [] ast.kind = "EmptyExpr" -> Expr("EmptyExpr", "", NULL, <<>>)
       [] OTHER -> Thrown("Unhandled expression type")

RECURSIVE convertAst(_, _)
\* convertAst(ast, job, baseSourceSpan), source spans left out: the output expression,
\* or Thrown.  e.ThisReceiver is a subclass of e.ImplicitReceiver.
convertAst(ast, job) ==
  LET Sub(i) == convertAst(ast.sub[i], job)
      Build(kind, name, subs) ==
        IF \E i \in 1..Len(subs) : IsThrown(subs[i]) THEN FirstThrown(subs)
        ELSE Expr(kind, name, NULL, subs)
      isImplicit(r) == r.kind \in {"ImplicitReceiver", "ThisReceiver"}
  IN CASE ast.kind = "ASTWithSource" -> Sub(1)
       [] ast.kind = "PropertyRead" ->
            IF ast.sub[1].kind = "ImplicitReceiver" THEN LexicalRead(ast.name)
            ELSE Build("ReadPropExpr", ast.name, <<Sub(1)>>)
       [] ast.kind = "PropertyWrite" ->
            IF isImplicit(ast.sub[1])
            THEN Build("WritePropExpr", ast.name, <<Expr("Context", "", job.units[1].xref, <<>>), Sub(2)>>)
            ELSE Build("WritePropExpr", ast.name, <<Sub(1), Sub(2)>>)
       [] ast.kind = "Call" ->
            IF isImplicit(ast.sub[1]) THEN Thrown("Unexpected ImplicitReceiver")
            ELSE Build("InvokeFunctionExpr", "", [i \in 1..Len(ast.sub) |-> Sub(i)])
       [] ast.kind = "LiteralPrimitive" -> Expr("LiteralExpr", ast.name, NULL, <<>>)
       [] ast.kind = "ThisReceiver" -> Expr("Context", "", job.units[1].xref, <<>>)
       [] ast.kind = "Chain" -> Thrown("AssertionError: Chain in unknown context")
       [] ast.kind = "NonNullAssert" -> Sub(1)
       [] ast.kind = "EmptyExpr" -> Expr("EmptyExpr", "", NULL, <<>>)
       [] OTHER -> Thrown("Unhandled expression type")

\* ingestBinding: the op it pushes and the list it pushes it to, or the error of
\* the conversion; flags is the set of BindingFlags that are set
ingestBinding(job, xref, name, value, type, flags) ==
  LET BINDING_KINDS(t) == CASE t = "Class" -> "ClassName"
                            [] t = "Style" -> "StyleProperty"
                            [] OTHER -> t
      Interpolated(exprs) ==
        IF \E i \in 1..Len(exprs) : IsThrown(exprs[i]) THEN FirstThrown(exprs)
        ELSE Expr("Interpolation", "", NULL, exprs)
      \* the expression of an e.Interpolation, of another e.AST, of an o.Expression
      Converted(v) ==
        IF v.kind = "Interpolation"
        THEN Interpolated([i \in 1..Len(v.sub) |-> convertAst(v.sub[i], job)])
        ELSE IF v.kind \in {"LiteralExpr", "ReadVarExpr", "ReadPropExpr"} THEN v
        ELSE convertAst(v, job)
      Bound(expression) ==
        IF IsThrown(expression)
        THEN [list |-> "none", err |-> expression.name, op |-> NoOp]
        ELSE [ list |-> "update", err |-> "none",
               op |-> createBindingOp(xref, BINDING_KINDS(type), name, expression,
                                      "TextValue" \in flags,
                                      "IsStructuralTemplateAttribute" \in flags) ]
  IN IF "OnNgTemplateElement" \in flags /\ "BindingTargetsTemplate" \notin flags
        /\ type = "Property"
     THEN [ list |-> "create", err |-> "none",
            op |-> [MkOp("ExtractedAttribute", NULL, xref, <<>>, name, NULL)
                      EXCEPT !.instr = "Property"] ]
     ELSE Bound(Converted(IF value.kind = "ASTWithSource" THEN value.sub[1] ELSE value))

\* the loop whose ops never reach the lists
pushUntilThrow_DropsOps(job, u, rs) == job

\* a loop of calls that each push one op or throw: the ops pushed before the first
\* throw go to their lists, and the job carries the error of that throw
pushUntilThrow(job, u, rs) ==
  LET bad == {i \in 1..Len(rs) : rs[i].err # "none"}
      n == IF bad = {} THEN Len(rs) + 1 ELSE CHOOSE i \in bad : \A j \in bad : i <= j
      done == SubSeq(rs, 1, n - 1)
      OpsTo(list) == LET sel == SelectSeq(done, LAMBDA r : r.list = list)
                     IN [i \in 1..Len(sel) |-> sel[i].op]
      pushed == push(push(job, u, "create", OpsTo("create")), u, "update", OpsTo("update"))
  IN IF job.err # "none" THEN job
     ELSE IF bad = {} THEN pushed ELSE [pushed EXCEPT !.err = rs[n].err]

\* the insertion point that passes the tag name of an ng-template along
ingestControlFlowInsertionPoint_KeepsNgTemplate(job, u, xref, node) ==
  LET RECURSIVE Loop(_, _)
      Loop(i, root) ==
        IF i > Len(node.children) THEN [returned |-> FALSE, root |-> root]
        ELSE IF node.children[i].kind = "Comment" THEN Loop(i + 1, root)
        ELSE IF root # 0 THEN [returned |-> TRUE, root |-> root]
        ELSE IF node.children[i].kind = "Element"
                \/ (node.children[i].kind = "Template" /\ node.children[i].name # NullStr)
        THEN Loop(i + 1, i)
        ELSE Loop(i + 1, root)
      Copied(root) ==
        [ tagName |-> root.name,
          job |-> pushUntilThrow(job, u,
                    [i \in 1..Len(root.attributes) |->
                       ingestBinding(job, xref, root.attributes[i].name,
                                     Expr("LiteralExpr", root.attributes[i].value, NULL, <<>>),
                                     "Attribute",
                                     {"TextValue"})]) ]
      After(l) == IF l.returned \/ l.root = 0 THEN [tagName |-> NullStr, job |-> job]
                  ELSE Copied(node.children[l.root])
  IN After(Loop(1, 0))

\* ingestControlFlowInsertionPoint(unit, xref, node): the tag name it returns and
\* the job after the bindings it ingested into unit u.  Loop(i, root) is the loop
\* at child i with the local root (an index into node.children, 0 for null).
ingestControlFlowInsertionPoint(job, u, xref, node) ==
  LET RECURSIVE Loop(_, _)
      Loop(i, root) ==
        IF i > Len(node.children) THEN [returned |-> FALSE, root |-> root]
        ELSE IF node.children[i].kind = "Comment" THEN Loop(i + 1, root)
        ELSE IF root # 0 THEN [returned |-> TRUE, root |-> root]
        ELSE IF node.children[i].kind = "Element"
                \/ (node.children[i].kind = "Template" /\ node.children[i].name # NullStr)
        THEN Loop(i + 1, i)
        ELSE Loop(i + 1, root)
      Copied(root) ==
        [ tagName |-> IF root.name = "ng-template" THEN NullStr ELSE root.name,
          job |-> pushUntilThrow(job, u,
                    [i \in 1..Len(root.attributes) |->
                       ingestBinding(job, xref, root.attributes[i].name,
                                     Expr("LiteralExpr", root.attributes[i].value, NULL, <<>>),
                                     "Attribute",
                                     {"TextValue"})]) ]
      After(l) == IF l.returned \/ l.root = 0 THEN [tagName |-> NullStr, job |-> job]
                  ELSE Copied(node.children[l.root])
  IN After(Loop(1, 0))

\* isPlainTemplate(tmpl), for tag names without a namespace prefix
isPlainTemplate(tmpl) == tmpl.name = "ng-template"

\* the listener of an empty handler chain pushed without handler ops
ingestOutput_EmptyChainAllowed(job, xref, element, output) ==
  LET Thrower(msg) == [list |-> "none", err |-> msg, op |-> NoOp]
      \* the listener of the converted expressions: all but the last as expression
      \* statements, the last as the return statement
      Listener(expressions) ==
        IF \E i \in 1..Len(expressions) : IsThrown(expressions[i])
        THEN Thrower(FirstThrown(expressions).name)
        ELSE [ list |-> "create", err |-> "none",
               op |-> [createListenerOp(
                         NULL,
                         [i \in 1..Len(expressions) |->
                            createStatementOp(IF i < Len(expressions) THEN "ExpressionStatement"
                                              ELSE "ReturnStatement", <<expressions[i]>>)],
                         output.name)
                       EXCEPT !.xref = xref] ]
      Handled(handlerExprs) ==
        Listener([i \in 1..Len(handlerExprs) |-> convertAst(handlerExprs[i], job)])
      Chained(handler) == Handled(IF handler.kind = "Chain" THEN handler.sub ELSE <<handler>>)
  IN IF output.type = "Animation" /\ output.phase = NullStr
     THEN Thrower("Animation listener should have a phase")
     ELSE IF element.kind = "Template" /\ ~isPlainTemplate(element)
     THEN [ list |-> "create", err |-> "none",
            op |-> [MkOp("ExtractedAttribute", NULL, xref, <<>>, output.name, NULL)
                      EXCEPT !.instr = "Property"] ]
     ELSE Chained(IF output.handler.kind = "ASTWithSource" THEN output.handler.sub[1]
                  ELSE output.handler)

\* the loop of ingestBindings over element.outputs, one turn: the op it pushes to
\* unit.create, or the error it throws
ingestOutput(job, xref, element, output) ==
  LET Thrower(msg) == [list |-> "none", err |-> msg, op |-> NoOp]
      \* the listener of the converted expressions: all but the last as expression
      \* statements, the last as the return statement
      Listener(expressions) ==
        IF \E i \in 1..Len(expressions) : IsThrown(expressions[i])
        THEN Thrower(FirstThrown(expressions).name)
        ELSE [ list |-> "create", err |-> "none",
               op |-> [createListenerOp(
                         NULL,
                         [i \in 1..Len(expressions) |->
                            createStatementOp(IF i < Len(expressions) THEN "ExpressionStatement"
                                              ELSE "ReturnStatement", <<expressions[i]>>)],
                         output.name)
                       EXCEPT !.xref = xref] ]
      Handled(handlerExprs) ==
        IF handlerExprs = <<>>
        THEN Thrower("Expected listener to have non-empty expression list.")
        ELSE Listener([i \in 1..Len(handlerExprs) |-> convertAst(handlerExprs[i], job)])
      Chained(handler) == Handled(IF handler.kind = "Chain" THEN handler.sub ELSE <<handler>>)
  IN IF output.type = "Animation" /\ output.phase = NullStr
     THEN Thrower("Animation listener should have a phase")
     ELSE IF element.kind = "Template" /\ ~isPlainTemplate(element)
     THEN [ list |-> "create", err |-> "none",
            op |-> [MkOp("ExtractedAttribute", NULL, xref, <<>>, output.name, NULL)
                      EXCEPT !.instr = "Property"] ]
     ELSE Chained(IF output.handler.kind = "ASTWithSource" THEN output.handler.sub[1]
                  ELSE output.handler)

\* ingestBindings(unit, op, element), op.xref being xref: the template attributes,
\* the attributes, the inputs and the outputs, in this order
ingestBindings(job, u, xref, element) ==
  LET isTemplate == element.kind = "Template"
      flags == (IF isTemplate THEN {"OnNgTemplateElement"} ELSE {})
               \cup (IF isTemplate /\ isPlainTemplate(element)
                     THEN {"BindingTargetsTemplate"} ELSE {})
      templateAttrFlags == flags \cup {"BindingTargetsTemplate", "IsStructuralTemplateAttribute"}
      templateAttrs ==
        IF isTemplate
        THEN [i \in 1..Len(element.templateAttrs) |->
                IF element.templateAttrs[i].type = "TextAttribute"
                THEN ingestBinding(job, xref, element.templateAttrs[i].name,
                                   Expr("LiteralExpr", element.templateAttrs[i].value, NULL, <<>>),
                                   "Attribute", templateAttrFlags \cup {"TextValue"})
                ELSE ingestBinding(job, xref, element.templateAttrs[i].name,
                                   element.templateAttrs[i].value,
                                   element.templateAttrs[i].type, templateAttrFlags)]
        ELSE <<>>
      attributes ==
        [i \in 1..Len(element.attributes) |->
           ingestBinding(job, xref, element.attributes[i].name,
                         Expr("LiteralExpr", element.attributes[i].value, NULL, <<>>),
                         "Attribute", flags \cup {"TextValue"})]
      inputs ==
        [i \in 1..Len(element.inputs) |->
           ingestBinding(job, xref, element.inputs[i].name, element.inputs[i].value,
                         element.inputs[i].type, flags)]
      outputs == [i \in 1..Len(element.outputs) |->
                    ingestOutput(job, xref, element, element.outputs[i])]
  IN pushUntilThrow(job, u, templateAttrs \o attributes \o inputs \o outputs)

RECURSIVE ingestNodes(_, _, _)

\* the I18nEnd op pushed to the end of the list
ingestElement_I18nEndPushed(job, u, element) ==
  LET id == job.nextXref
      startOp == MkOp("ElementStart", NULL, id, <<>>, element.name, NULL)
      endOp == MkOp("ElementEnd", NULL, id, <<>>, "", NULL)
      \* OpList.insertAfter(I18nStart, startOp) and OpList.insertBefore(I18nEnd, endOp)
      Wrapped(ops, block) ==
        LET s == CHOOSE i \in 1..Len(ops) : ops[i] = startOp
        IN SubSeq(ops, 1, s) \o <<MkOp("I18nStart", NULL, block, <<>>, "", NULL)>>
           \o SubSeq(ops, s + 1, Len(ops))
           \o <<MkOp("I18nEnd", NULL, block, <<>>, "", NULL)>>
      Closed(j) ==
        IF j.err # "none" THEN j
        ELSE IF element.i18n # "Message" THEN push(j, u, "create", <<endOp>>)
        ELSE [push(j, u, "create", <<endOp>>) EXCEPT
                !.units[u].create = Wrapped(@, j.nextXref), !.nextXref = @ + 1]
  IN IF job.err # "none" THEN job
     ELSE IF element.i18n \notin {"undefined", "Message", "TagPlaceholder"}
     THEN [job EXCEPT !.err = "Unhandled i18n metadata type for element"]
     ELSE Closed(ingestNodes(
            ingestBindings(push([job EXCEPT !.nextXref = @ + 1], u, "create", <<startOp>>),
                           u, id, element),
            u, element.children))

\* ingestElement(unit, element); the element has no local references
ingestElement(job, u, element) ==
  LET id == job.nextXref
      startOp == MkOp("ElementStart", NULL, id, <<>>, element.name, NULL)
      endOp == MkOp("ElementEnd", NULL, id, <<>>, "", NULL)
      \* OpList.insertAfter(I18nStart, startOp) and OpList.insertBefore(I18nEnd, endOp)
      Wrapped(ops, block) ==
        LET s == CHOOSE i \in 1..Len(ops) : ops[i] = startOp
        IN SubSeq(ops, 1, s) \o <<MkOp("I18nStart", NULL, block, <<>>, "", NULL)>>
           \o SubSeq(ops, s + 1, Len(ops) - 1)
           \o <<MkOp("I18nEnd", NULL, block, <<>>, "", NULL), endOp>>
      Closed(j) ==
        IF j.err # "none" THEN j
        ELSE IF element.i18n # "Message" THEN push(j, u, "create", <<endOp>>)
        ELSE [push(j, u, "create", <<endOp>>) EXCEPT
                !.units[u].create = Wrapped(@, j.nextXref), !.nextXref = @ + 1]
  IN IF job.err # "none" THEN job
     ELSE IF element.i18n \notin {"undefined", "Message", "TagPlaceholder"}
     THEN [job EXCEPT !.err = "Unhandled i18n metadata type for element"]
     ELSE Closed(ingestNodes(
            ingestBindings(push([job EXCEPT !.nextXref = @ + 1], u, "create", <<startOp>>),
                           u, id, element),
            u, element.children))

\* ingestTemplate(unit, tmpl); the template has no local references, and its tag
\* name no namespace prefix
ingestTemplate(job, u, tmpl) ==
  LET xref == job.nextXref
      childView == Len(job.units) + 1
      tplOp == MkOp("Template", NULL, xref, <<>>, tmpl.name, NULL)
      Variables(j) ==
        IF j.err # "none" THEN j
        ELSE LET RECURSIVE Set(_, _)
                 Set(entries, i) ==
                   IF i > Len(tmpl.variables) THEN entries
                   ELSE Set(mapSet(entries, tmpl.variables[i].name,
                                   IF tmpl.variables[i].value # "" THEN tmpl.variables[i].value
                                   ELSE "$implicit"), i + 1)
                 set == [j EXCEPT !.units[childView].contextVariables = Set(@, 1)]
             IN IF isPlainTemplate(tmpl) /\ tmpl.i18n = "Message"
                THEN [set EXCEPT
                        !.units[childView].create =
                           <<MkOp("I18nStart", NULL, set.nextXref, <<>>, "", NULL)>> \o @
                           \o <<MkOp("I18nEnd", NULL, set.nextXref, <<>>, "", NULL)>>,
                        !.nextXref = @ + 1]
                ELSE set
  IN IF job.err # "none" THEN job
     ELSE IF tmpl.i18n \notin {"undefined", "Message", "TagPlaceholder"}
     THEN [job EXCEPT !.err = "Unhandled i18n metadata type for template"]
     ELSE Variables(ingestNodes(
            ingestBindings(push(allocateView(job, job.units[u].xref), u, "create", <<tplOp>>),
                           u, xref, tmpl),
            childView, tmpl.children))

\* ingestText(unit, text)
ingestText(job, u, text) ==
  IF job.err # "none" THEN job
  ELSE push([job EXCEPT !.nextXref = @ + 1], u, "create",
            <<MkOp("Text", NULL, job.nextXref, <<>>, text.name, NULL)>>)

\* the text's id allocated before the placeholders are counted
ingestBoundText_AllocatesFirst(job, u, text) ==
  LET i18nPlaceholders == IF text.i18n = "Container" THEN text.placeholders ELSE <<>>
      Interpolated(j, expressions) ==
        IF \E i \in 1..Len(expressions) : IsThrown(expressions[i])
        THEN [j EXCEPT !.err = FirstThrown(expressions).name]
        ELSE push(j, u, "update",
                  << [ kind |-> "InterpolateText", xref |-> job.nextXref,
                       exprs |-> expressions, interp |-> TRUE,
                       i18nPlaceholders |-> i18nPlaceholders ] >>)
      Checked(value) ==
        IF value.kind # "Interpolation"
        THEN [job EXCEPT !.err = "AssertionError: expected Interpolation for BoundText node"]
        ELSE IF text.i18n \notin {"undefined", "Container"}
        THEN [job EXCEPT !.err = "Unhandled i18n metadata type for text interpolation"]
        ELSE IF Len(i18nPlaceholders) > 0 /\ Len(i18nPlaceholders) # Len(value.sub)
        THEN [job EXCEPT !.err = "Unexpected number of i18n placeholders",
                         !.nextXref = @ + 1]
        ELSE Interpolated(push([job EXCEPT !.nextXref = @ + 1], u, "create",
                               <<MkOp("Text", NULL, job.nextXref, <<>>, "", NULL)>>),
                          [i \in 1..Len(value.sub) |-> convertAst(value.sub[i], job)])
  IN IF job.err # "none" THEN job
     ELSE Checked(IF text.value.kind = "ASTWithSource" THEN text.value.sub[1] ELSE text.value)

\* ingestBoundText(unit, text), called without i18nPlaceholders as ingestNodes calls
\* it; text.placeholders are the names of the i18n.Placeholder children of text.i18n
ingestBoundText(job, u, text) ==
  LET i18nPlaceholders == IF text.i18n = "Container" THEN text.placeholders ELSE <<>>
      Interpolated(j, expressions) ==
        IF \E i \in 1..Len(expressions) : IsThrown(expressions[i])
        THEN [j EXCEPT !.err = FirstThrown(expressions).name]
        ELSE push(j, u, "update",
                  << [ kind |-> "InterpolateText", xref |-> job.nextXref,
                       exprs |-> expressions, interp |-> TRUE,
                       i18nPlaceholders |-> i18nPlaceholders ] >>)
      Checked(value) ==
        IF value.kind # "Interpolation"
        THEN [job EXCEPT !.err = "AssertionError: expected Interpolation for BoundText node"]
        ELSE IF text.i18n \notin {"undefined", "Container"}
        THEN [job EXCEPT !.err = "Unhandled i18n metadata type for text interpolation"]
        ELSE IF Len(i18nPlaceholders) > 0 /\ Len(i18nPlaceholders) # Len(value.sub)
        THEN [job EXCEPT !.err = "Unexpected number of i18n placeholders"]
        ELSE Interpolated(push([job EXCEPT !.nextXref = @ + 1], u, "create",
                               <<MkOp("Text", NULL, job.nextXref, <<>>, "", NULL)>>),
                          [i \in 1..Len(value.sub) |-> convertAst(value.sub[i], job)])
  IN IF job.err # "none" THEN job
     ELSE Checked(IF text.value.kind = "ASTWithSource" THEN text.value.sub[1] ELSE text.value)

\* the insertion point inferred for every branch
ingestIfBlock_EveryBranchInfers(job, u, ifBlock) ==
  LET firstXref == IF ifBlock.branches = <<>> THEN NULL ELSE job.nextXref
      RECURSIVE Branches(_, _, _)
      Branches(j, i, conditions) ==
        IF j.err # "none" THEN j
        ELSE IF i > Len(ifBlock.branches)
        THEN push(j, u, "update",
                  <<MkOp("Conditional", NULL, firstXref, conditions, "", NULL)>>)
        ELSE LET ifCase == ifBlock.branches[i]
                 cView == Len(j.units) + 1
                 xref == j.nextXref
                 Aliased(v) ==
                   IF ifCase.expressionAlias = NullStr THEN v
                   ELSE [v EXCEPT !.units[cView].contextVariables =
                                     mapSet(@, ifCase.expressionAlias, "CTX_REF")]
                 Pushed(p) ==
                   push(Aliased(p.job), u, "create",
                        <<MkOp("Template", NULL, xref, <<>>, p.tagName, NULL)>>)
                 Children(v, caseExpr) ==
                   IF IsThrown(caseExpr) THEN [v EXCEPT !.err = caseExpr.name]
                   ELSE Branches(ingestNodes(v, cView, ifCase.children), i + 1,
                                 Append(conditions,
                                        Expr("ConditionalCase", ifCase.expressionAlias, xref,
                                             <<caseExpr>>)))
             IN Children(Pushed(
                          ingestControlFlowInsertionPoint(
                            allocateView(j, j.units[u].xref), u, xref, ifCase)),
                        IF ifCase.expression # NoOp THEN convertAst(ifCase.expression, j)
                        ELSE Expr("null", "", NULL, <<>>))
  IN Branches(job, 1, <<>>)

\* ingestIfBlock(unit, ifBlock); Branches(j, i, conditions) is the loop at branch i.
\* A branch is [expression, expressionAlias, children], with NoOp for no expression
\* and NullStr for no alias.
ingestIfBlock(job, u, ifBlock) ==
  LET firstXref == IF ifBlock.branches = <<>> THEN NULL ELSE job.nextXref
      RECURSIVE Branches(_, _, _)
      Branches(j, i, conditions) ==
        IF j.err # "none" THEN j
        ELSE IF i > Len(ifBlock.branches)
        THEN push(j, u, "update",
                  <<MkOp("Conditional", NULL, firstXref, conditions, "", NULL)>>)
        ELSE LET ifCase == ifBlock.branches[i]
                 cView == Len(j.units) + 1
                 xref == j.nextXref
                 Aliased(v) ==
                   IF ifCase.expressionAlias = NullStr THEN v
                   ELSE [v EXCEPT !.units[cView].contextVariables =
                                     mapSet(@, ifCase.expressionAlias, "CTX_REF")]
                 Pushed(p) ==
                   push(Aliased(p.job), u, "create",
                        <<MkOp("Template", NULL, xref, <<>>, p.tagName, NULL)>>)
                 Children(v, caseExpr) ==
                   IF IsThrown(caseExpr) THEN [v EXCEPT !.err = caseExpr.name]
                   ELSE Branches(ingestNodes(v, cView, ifCase.children), i + 1,
                                 Append(conditions,
                                        Expr("ConditionalCase", ifCase.expressionAlias, xref,
                                             <<caseExpr>>)))
             IN Children(Pushed(
                          IF i = 1
                          THEN ingestControlFlowInsertionPoint(
                                 allocateView(j, j.units[u].xref), u, xref, ifCase)
                          ELSE [tagName |-> NullStr, job |-> allocateView(j, j.units[u].xref)]),
                        IF ifCase.expression # NoOp THEN convertAst(ifCase.expression, j)
                        ELSE Expr("null", "", NULL, <<>>))
  IN Branches(job, 1, <<>>)

\* the arrays with a default Idle trigger for every group that configures none
deferTriggers_DefaultPerGroup(acc, deferXref, triggers, prefetch, whenValue) ==
  LET createDeferOnOp(trigger, pre, sourceSpan) ==
        [ kind |-> "DeferOn", xref |-> deferXref, aux |-> trigger, prefetch |-> pre,
          slot |-> NULL, num |-> NULL, sourceSpan |-> sourceSpan ]
      order == <<"Idle", "Immediate", "Timer", "Hover", "Interaction", "Viewport">>
      sel == SelectSeq(order, LAMBDA k : k \in triggers.on)
      when == IF triggers.when = NoOp THEN acc.when
              ELSE Append(acc.when, [ kind |-> "DeferWhen", xref |-> deferXref,
                                      prefetch |-> prefetch, exprs |-> <<whenValue>>,
                                      sourceSpan |-> "trigger" ])
  IN IF acc.err # "none" THEN acc
     ELSE IF triggers.when # NoOp /\ IsThrown(whenValue)
     THEN [acc EXCEPT !.err = whenValue.name]
     ELSE [ on |-> acc.on \o (IF sel = <<>> /\ triggers.when = NoOp
                              THEN <<createDeferOnOp("Idle", FALSE, NullStr)>>
                              ELSE [i \in 1..Len(sel) |-> createDeferOnOp(sel[i], prefetch, "trigger")]),
            when |-> when, err |-> "none" ]

\* ingestDeferBlock, one turn of the loop over the two trigger groups: the arrays
\* deferOnOps and deferWhenOps after it, or the throw of the conversion; whenValue is
\* the converted value of the group's when trigger.  sourceSpan is the span the op is
\* created with: the one of its trigger ("trigger"), or null
deferTriggers(acc, deferXref, triggers, prefetch, whenValue) ==
  LET createDeferOnOp(trigger, pre, sourceSpan) ==
        [ kind |-> "DeferOn", xref |-> deferXref, aux |-> trigger, prefetch |-> pre,
          slot |-> NULL, num |-> NULL, sourceSpan |-> sourceSpan ]
      order == <<"Idle", "Immediate", "Timer", "Hover", "Interaction", "Viewport">>
      sel == SelectSeq(order, LAMBDA k : k \in triggers.on)
      on == acc.on \o [i \in 1..Len(sel) |-> createDeferOnOp(sel[i], prefetch, "trigger")]
      when == IF triggers.when = NoOp THEN acc.when
              ELSE Append(acc.when, [ kind |-> "DeferWhen", xref |-> deferXref,
                                      prefetch |-> prefetch, exprs |-> <<whenValue>>,
                                      sourceSpan |-> "trigger" ])
  IN IF acc.err # "none" THEN acc
     ELSE IF triggers.when # NoOp /\ IsThrown(whenValue)
     THEN [acc EXCEPT !.err = whenValue.name]
     ELSE [ on |-> IF on = <<>> /\ when = <<>>
                   THEN <<createDeferOnOp("Idle", FALSE, NullStr)>> ELSE on,
            when |-> when, err |-> "none" ]

\* ingestDeferBlock(unit, deferBlock).  A trigger group is [on, when]: the kinds of
\* its DeferOn triggers and the value of its when trigger (NoOp for none); loading,
\* placeholder and error are [present, children, minimumTime, afterTime], a time
\* being NULL where the block gives none.
ingestDeferBlock(job, u, deferBlock) ==
  LET \* ingestDeferView, v being [job, views]: the job, and the xrefs of the template
      \* ops the calls so far returned (NULL for null)
      ingestDeferView(v, part) ==
        LET Templated(j, xref) ==
              [ job |-> IF j.err # "none" THEN j
                        ELSE push(j, u, "create",
                                  <<MkOp("Template", NULL, xref, <<>>, NullStr, NULL)>>),
                views |-> Append(v.views, xref) ]
        IN IF ~part.present \/ v.job.err # "none"
           THEN [job |-> v.job, views |-> Append(v.views, NULL)]
           ELSE Templated(ingestNodes(allocateView(v.job, v.job.units[u].xref),
                                      Len(v.job.units) + 1, part.children),
                          v.job.nextXref)
      Time(part, t) == IF part.present THEN t ELSE NULL
      Triggered(j, acc) ==
        IF acc.err # "none" THEN [j EXCEPT !.err = acc.err]
        ELSE push(push(j, u, "create", acc.on), u, "update", acc.when)
      \* the defer op and the trigger ops, the views being ingested
      Deferred(v) ==
        LET deferXref == v.job.nextXref
            deferOp ==
              [ kind |-> "Defer", xref |-> deferXref, slot |-> NULL, mainView |-> v.views[1],
                loadingView |-> v.views[2], placeholderView |-> v.views[3],
                errorView |-> v.views[4],
                placeholderMinimumTime |-> Time(deferBlock.placeholder,
                                                deferBlock.placeholder.minimumTime),
                loadingMinimumTime |-> Time(deferBlock.loading,
                                            deferBlock.loading.minimumTime),
                loadingAfterTime |-> Time(deferBlock.loading, deferBlock.loading.afterTime) ]
        IN IF v.job.err # "none" THEN v.job
           ELSE Triggered(
                  push([v.job EXCEPT !.nextXref = @ + 1], u, "create", <<deferOp>>),
                  deferTriggers(deferTriggers([on |-> <<>>, when |-> <<>>, err |-> "none"], deferXref,
                              deferBlock.triggers, FALSE,
                              IF deferBlock.triggers.when = NoOp THEN NoOp
                              ELSE convertAst(deferBlock.triggers.when, job)),
                        deferXref, deferBlock.prefetchTriggers, TRUE,
                        IF deferBlock.prefetchTriggers.when = NoOp THEN NoOp
                        ELSE convertAst(deferBlock.prefetchTriggers.when, job)))
  IN IF job.err # "none" THEN job
     ELSE IF ~deferBlock.hasMeta
     THEN [job EXCEPT !.err = "AssertionError: unable to find metadata for deferred block"]
     ELSE Deferred(
            ingestDeferView(
              ingestDeferView(
                ingestDeferView(
                  ingestDeferView([job |-> job, views |-> <<>>],
                                  [present |-> TRUE, children |-> deferBlock.children]),
                  deferBlock.loading),
                deferBlock.placeholder),
              deferBlock.error))

\* ingestForBlock(unit, forBlock).  forBlock.contextVariables has the fields index,
\* count, first, last, even and odd for $index .. $odd, each a variable [name, value];
\* forBlock.empty is [present, children].
ingestForBlock(job, u, forBlock) ==
  LET repeaterView == Len(job.units) + 1
      xref == job.nextXref
      cv == forBlock.contextVariables
      createRepeaterAlias(ident, repeaterVar) ==
        [ kind |-> "Alias", name |-> NullStr, identifier |-> ident,
          expression |-> Expr("DerivedRepeaterVar", repeaterVar, xref, <<>>) ]
      Declared(j) ==
        [j EXCEPT
           !.units[repeaterView].contextVariables =
              mapSet(mapSet(mapSet(@, forBlock.item.name, forBlock.item.value),
                            cv.index.name, cv.index.value),
                     cv.count.name, cv.count.value),
           !.units[repeaterView].aliases =
              @ \o << createRepeaterAlias(cv.first.name, "First"),
                      createRepeaterAlias(cv.last.name, "Last"),
                      createRepeaterAlias(cv.even.name, "Even"),
                      createRepeaterAlias(cv.odd.name, "Odd") >>]
      Tracked(j, track) == IF IsThrown(track) THEN [j EXCEPT !.err = track.name]
                           ELSE ingestNodes(j, repeaterView, forBlock.children)
      \* [job, xref of the empty view or NULL]
      Empty(j) ==
        IF j.err # "none" \/ ~forBlock.empty.present THEN [job |-> j, emptyView |-> NULL]
        ELSE [ job |-> ingestNodes(allocateView(j, j.units[u].xref), Len(j.units) + 1,
                                   forBlock.empty.children),
               emptyView |-> j.nextXref ]
      Repeated(j, expression) ==
        IF IsThrown(expression) THEN [j EXCEPT !.err = expression.name]
        ELSE push(j, u, "update", <<MkOp("Repeater", NULL, xref, <<expression>>, "", NULL)>>)
      Created(e, p) ==
        Repeated(push(p.job, u, "create",
                      << [ kind |-> "RepeaterCreate", xref |-> xref, slot |-> NULL,
                           num |-> e.emptyView, aux |-> p.tagName,
                           exprs |-> <<convertAst(forBlock.trackBy, job)>>,
                           varNames |-> [ index |-> cv.index.name, count |-> cv.count.name,
                                          first |-> cv.first.name, last |-> cv.last.name,
                                          even |-> cv.even.name, odd |-> cv.odd.name,
                                          implicit |-> forBlock.item.name ] ] >>),
                 convertAst(forBlock.expression, job))
      Inserted(e) ==
        IF e.job.err # "none" THEN e.job
        ELSE Created(e, ingestControlFlowInsertionPoint(e.job, u, xref, forBlock))
  IN IF job.err # "none" THEN job
     ELSE Inserted(Empty(Tracked(Declared(allocateView(job, job.units[u].xref)),
                                 convertAst(forBlock.trackBy, job))))

\* ingestNodes(unit, template): the nodes in order, until one throws.  Content,
\* SwitchBlock and Icu nodes are not among the nodes of the model.
ingestNodes(job, u, template) ==
  LET node == Head(template)
      ingested ==
        CASE node.kind = "Element" -> ingestElement(job, u, node)
          [] node.kind = "Template" -> ingestTemplate(job, u, node)
          [] node.kind = "Text" -> ingestText(job, u, node)
          [] node.kind = "BoundText" -> ingestBoundText(job, u, node)
          [] node.kind = "IfBlock" -> ingestIfBlock(job, u, node)
          [] node.kind = "DeferredBlock" -> ingestDeferBlock(job, u, node)
          [] node.kind = "ForLoopBlock" -> ingestForBlock(job, u, node)
          [] OTHER -> [job EXCEPT !.err = "Unsupported template node"]
  IN IF job.err # "none" \/ template = <<>> THEN job
     ELSE ingestNodes(ingested, u, Tail(template))

----------------------------------------------------------------------------
(* Ingestion as steps: the loop of ingestNodes over the nodes cur of the   *)
(* view pc.u, one node per step; the nodes below it are ingested within    *)
(* the step.                                                               *)

\* one turn of the loop of ingestNodes at a node of the given kind, r being the job
\* its handler leaves
IngestNode(kind, r) ==
  /\ pc.phase = "ingest" /\ pc.at = "nodes"
  /\ cur # <<>> /\ Head(cur).kind = kind
  /\ units' = r.units /\ nextXref' = r.nextXref /\ err' = r.err
  /\ cur' = Tail(cur)
  /\ pc' = [pc EXCEPT !.at = IF r.err # "none" THEN "aborted"
                             ELSE IF Tail(cur) = <<>> THEN "done" ELSE "nodes"]
  /\ UNCHANGED <<currentI18nOp, rootContexts, snap>>

IngestElement ==
  IngestNode("Element", ingestElement([units |-> units, nextXref |-> nextXref, err |-> err],
                                      pc.u, Head(cur)))

IngestTemplate ==
  IngestNode("Template", ingestTemplate([units |-> units, nextXref |-> nextXref, err |-> err],
                                        pc.u, Head(cur)))

IngestText ==
  IngestNode("Text", ingestText([units |-> units, nextXref |-> nextXref, err |-> err],
                                pc.u, Head(cur)))

IngestBoundText ==
  IngestNode("BoundText",
             ingestBoundText([units |-> units, nextXref |-> nextXref, err |-> err],
                             pc.u, Head(cur)))

IngestIfBlock ==
  IngestNode("IfBlock", ingestIfBlock([units |-> units, nextXref |-> nextXref, err |-> err],
                                      pc.u, Head(cur)))

IngestDeferBlock ==
  IngestNode("DeferredBlock",
             ingestDeferBlock([units |-> units, nextXref |-> nextXref, err |-> err],
                              pc.u, Head(cur)))

IngestForBlock ==
  IngestNode("ForLoopBlock",
             ingestForBlock([units |-> units, nextXref |-> nextXref, err |-> err],
                            pc.u, Head(cur)))

\* the else of ingestNodes: a node of no handled kind
IngestUnsupported ==
  /\ pc.phase = "ingest" /\ pc.at = "nodes"
  /\ cur # <<>>
  /\ Head(cur).kind \notin {"Element", "Template", "Text", "BoundText", "IfBlock",
                            "DeferredBlock", "ForLoopBlock"}
  /\ err' = "Unsupported template node"
  /\ cur' = Tail(cur)
  /\ pc' = [pc EXCEPT !.at = "aborted"]
  /\ UNCHANGED <<units, nextXref, currentI18nOp, rootContexts, snap>>

----------------------------------------------------------------------------
(* Templates handed to ingestion. *)

\* most expressions of the handler chain of a listener
MaxHandlerExprs == 3

\* the nodes ingestion starts at: control-flow blocks over the children lists of at
\* most MaxChildren nodes, deferred blocks, bound texts, elements with listeners,
\* and a node ingestNodes has no case for
IngestTemplates ==
  LET Ast(kind, name, sub) == Expr(kind, name, NULL, sub)
      implicit == Ast("ImplicitReceiver", "", <<>>)
      read(n) == Ast("PropertyRead", n, <<implicit>>)
      thisRead(n) == Ast("PropertyRead", n, <<Ast("ThisReceiver", "", <<>>)>>)
      badCall == Ast("Call", "", <<implicit>>)
      trackCalls == { Ast("Call", "", <<r, read("$index"), read("item")>>) :
                        r \in {read("trackFn"), thisRead("trackFn")} }
      attr(n, v) == [name |-> n, value |-> v, type |-> "TextAttribute"]
      input(n) == [name |-> n, value |-> read(n), type |-> "Property"]
      text == TNode("Text", "t", <<>>, <<>>, <<>>)
      comment == TNode("Comment", "c", <<>>, <<>>, <<>>)
      div == TNode("Element", "div", <<attr("foo", "1")>>, <<>>, <<>>)
      span == TNode("Element", "span", <<attr("foo", "1"), attr("bar", "2")>>,
                    <<input("x")>>, <<>>)
      ngTemplate == TNode("Template", "ng-template", <<attr("foo", "1"), attr("bar", "2")>>,
                          <<>>, <<>>)
      structural == TNode("Template", "div", <<attr("a", "1")>>, <<input("y")>>, <<>>)
      \* the template of a structural directive on an ng-template: no tag name, and
      \* no attributes of its own
      untagged == TNode("Template", NullStr, <<>>, <<>>, <<text>>)
      children == SeqsUpTo({text, comment, div, span, ngTemplate, structural, untagged},
                           MaxChildren)
      branch(e, alias, c) == [expression |-> e, expressionAlias |-> alias, children |-> c]
      ifBlocks ==
        { [kind |-> "IfBlock", branches |-> <<branch(read("c"), NullStr, c)>> \o rest] :
            c \in children,
            rest \in { <<>>, <<branch(NoOp, NullStr, <<div>>)>>,
                       <<branch(NoOp, NullStr, <<ngTemplate>>)>>,
                       <<branch(thisRead("d"), "a", <<text, span>>)>> } }
        \cup { [kind |-> "IfBlock", branches |-> <<branch(badCall, NullStr, <<div>>)>>] }
      var(n, v) == [name |-> n, value |-> v]
      standard == [ index |-> var("$index", "$index"), count |-> var("$count", "$count"),
                    first |-> var("$first", "$first"), last |-> var("$last", "$last"),
                    even |-> var("$even", "$even"), odd |-> var("$odd", "$odd") ]
      forBlock(names, track, c, e) ==
        [ kind |-> "ForLoopBlock", item |-> var("item", "$implicit"),
          contextVariables |-> names, trackBy |-> track, expression |-> read("items"),
          children |-> c, empty |-> e ]
      forBlocks ==
        { forBlock(standard, read("item"), c, e) :
            c \in children,
            e \in { [present |-> FALSE, children |-> <<>>],
                    [present |-> TRUE, children |-> <<text>>] } }
        \cup { forBlock(names, track, <<div>>, [present |-> FALSE, children |-> <<>>]) :
                 names \in { standard,
                             [standard EXCEPT !.index = var("idx", "$index")],
                             [standard EXCEPT !.index = var("i", "$index"),
                                              !.odd = var("o", "$odd")] },
                 track \in trackCalls \cup {badCall, thisRead("id")} }
      part(p, c, min, after) ==
        [present |-> p, children |-> c, minimumTime |-> min, afterTime |-> after]
      absent == part(FALSE, <<>>, NULL, NULL)
      group(on, when) == [on |-> on, when |-> when]
      deferBlocks ==
        { [ kind |-> "DeferredBlock", hasMeta |-> TRUE, children |-> <<text>>,
            loading |-> l, placeholder |-> p, error |-> absent,
            triggers |-> group(on, when), prefetchTriggers |-> pre ] :
            l \in {absent, part(TRUE, <<>>, NULL, NULL), part(TRUE, <<text>>, 0, 100)},
            p \in {absent, part(TRUE, <<text>>, NULL, NULL), part(TRUE, <<>>, 0, NULL)},
            on \in SUBSET {"Idle", "Timer", "Hover"},
            when \in {NoOp, read("c"), badCall},
            pre \in { group({}, NoOp), group({"Idle"}, NoOp), group({"Immediate"}, read("p")),
                      group({}, read("p")) } }
        \cup { [ kind |-> "DeferredBlock", hasMeta |-> m, children |-> c,
                 loading |-> absent, placeholder |-> absent,
                 error |-> part(TRUE, <<div>>, NULL, NULL),
                 triggers |-> group({}, NoOp), prefetchTriggers |-> group({}, NoOp) ] :
                 m \in BOOLEAN, c \in {<<>>, <<comment>>} }
      interpolations == { Ast("Interpolation", "", s) :
                            s \in SeqsUpTo({read("x"), thisRead("y")}, 2) }
      boundTexts ==
        { [kind |-> "BoundText", value |-> v, i18n |-> i, placeholders |-> ps] :
            v \in interpolations \cup {read("x"), Ast("ASTWithSource", "", <<read("x")>>)}
                  \cup { Ast("ASTWithSource", "", <<Ast("Interpolation", "", <<read("x")>>)>>),
                         Ast("Interpolation", "", <<badCall>>) },
            i \in {"undefined", "Container", "Message"},
            ps \in SeqsUpTo({"INTERPOLATION"}, 2) }
      output(n, type, phase, handler) ==
        [name |-> n, type |-> type, phase |-> phase, handler |-> handler]
      handlers ==
        { Ast("Chain", "", s) :
            s \in SeqsUpTo({read("x"), Ast("PropertyWrite", "v", <<implicit, read("$event")>>)},
                           MaxHandlerExprs) }
        \cup { read("x"), Ast("ASTWithSource", "", <<Ast("Chain", "", <<>>)>>),
               Ast("Chain", "", <<read("x"), badCall>>) }
      listening ==
        { [TNode(k, n, <<>>, <<>>, <<>>) EXCEPT !.outputs = <<output("click", "Regular", NullStr, h)>>] :
            k \in {"Element"}, n \in {"button"}, h \in handlers }
        \cup { [TNode("Element", "button", <<attr("foo", "1")>>, <<>>, <<>>) EXCEPT
                  !.outputs = <<output("@a", "Animation", ph, read("x")),
                                output("click", "Regular", NullStr, Ast("Chain", "", <<>>))>>] :
                 ph \in {NullStr, "done"} }
        \cup { [TNode("Template", n, <<>>, <<>>, <<text>>) EXCEPT
                  !.outputs = <<output("click", "Regular", NullStr, read("x"))>>,
                  !.i18n = i] :
                 n \in {"ng-template", "div"}, i \in {"undefined", "Message", "Other"} }
        \cup { [TNode("Element", "p", <<>>, <<input("x")>>, <<text>>) EXCEPT !.i18n = i] :
                 i \in {"undefined", "Message", "Other"} }
        \cup { [TNode("Element", "section", <<attr("foo", "1")>>, <<input("x")>>, c) EXCEPT
                  !.outputs = <<output("click", "Regular", NullStr, read("x"))>>,
                  !.i18n = i] :
                 i \in {"undefined", "Message", "TagPlaceholder"},
                 c \in { <<>>, <<div, text>>,
                         <<[TNode("Element", "b", <<>>, <<>>, <<text>>) EXCEPT
                              !.i18n = "Message",
                              !.outputs = <<output("click", "Regular", NullStr, read("x"))>>],
                           div>> } }
  IN ifBlocks \cup forBlocks \cup deferBlocks \cup boundTexts \cup listening
     \cup {text, comment}

\* ingestion at the root view of a new job, or at a view allocated under the root
\* whose template op the root holds; the template is one node, or a node and a text
InitIngest ==
  /\ \E n \in IngestTemplates : \E more \in BOOLEAN :
       cur = IF more /\ n.kind \in {"Text", "BoundText"}
             THEN <<n, TNode("Text", "t", <<>>, <<>>, <<>>)>> ELSE <<n>>
  /\ \E nested \in BOOLEAN :
       LET root == allocateView([units |-> <<>>, nextXref |-> RootXref, err |-> "none"], NULL)
           under == push(allocateView(root, RootXref), 1, "create",
                         <<MkOp("Template", NULL, ChildXref, <<>>, "ng-template", NULL)>>)
       IN /\ units = IF nested THEN under.units ELSE root.units
          /\ nextXref = IF nested THEN under.nextXref ELSE root.nextXref
          /\ pc = At("ingest", "nodes", IF nested THEN 2 ELSE 1)
  /\ err = "none"
  /\ currentI18nOp = NoOp /\ rootContexts = {}
  /\ snap = [units |-> units, nextXref |-> nextXref, template |-> cur]

NextIngest ==
  \/ IngestElement \/ IngestTemplate \/ IngestText \/ IngestBoundText
  \/ IngestIfBlock \/ IngestDeferBlock \/ IngestForBlock \/ IngestUnsupported

SpecIngest == InitIngest /\ [][NextIngest]_vars

----------------------------------------------------------------------------
(* Ingestion of host bindings.  A name is the sequence of its pieces, the  *)
(* prefix 'attr.' being one piece; a ParsedProperty is [name, isAnimation, *)
(* expression], a host attribute [name, value], a ParsedEvent [name,       *)
(* targetOrPhase, handler].  A source span is "span", or null.             *)

\* most host-binding jobs ingested from one input
MaxHostJobs == 2

\* ingestHostProperty(job, property, isTextAttribute): the job, and the property as
\* the call leaves it
ingestHostProperty(job, property, isTextAttribute) ==
  LET Interpolated(exprs) ==
        IF \E i \in 1..Len(exprs) : IsThrown(exprs[i]) THEN FirstThrown(exprs)
        ELSE Expr("Interpolation", "", NULL, exprs)
      \* property.name.startsWith('attr.')
      startsWithAttr == property.name # <<>> /\ Head(property.name) = "attr."
      \* property.name.substring('attr.'.length), assigned to property.name
      name == IF startsWithAttr THEN Tail(property.name) ELSE property.name
      bindingKind == IF property.isAnimation THEN "Animation"
                     ELSE IF startsWithAttr THEN "Attribute" ELSE "Property"
      Pushed(expression) ==
        IF IsThrown(expression)
        THEN [job |-> [job EXCEPT !.err = expression.name], property |-> property]
        ELSE [ job |-> push(job, 1, "update",
                            << createBindingOp(job.units[1].xref, bindingKind, name,
                                               expression, isTextAttribute, FALSE)
                               @@ [sourceSpan |-> "span"] >>),
               property |-> [property EXCEPT !.name = name] ]
  IN Pushed(IF property.expression.kind = "Interpolation"
            THEN Interpolated([i \in 1..Len(property.expression.sub) |->
                                 convertAst(property.expression.sub[i], job)])
            ELSE convertAst(property.expression, job))

\* ingestHostAttribute(job, name, value): the binding is created with a null span
ingestHostAttribute(job, name, value) ==
  push(job, 1, "update",
       << createBindingOp(job.units[1].xref, "Attribute", name, value, TRUE, FALSE)
          @@ [sourceSpan |-> NullStr] >>)

\* ingestHostEvent(job, event)
ingestHostEvent(job, event) ==
  LET Pushed(handler) ==
        IF IsThrown(handler) THEN [job EXCEPT !.err = handler.name]
        ELSE push(job, 1, "create",
                  << [createListenerOp(NULL, <<ReturnStmt(handler)>>,
                                       IF event.targetOrPhase # NullStr THEN "hostAnimation"
                                       ELSE "host")
                        EXCEPT !.xref = job.units[1].xref]
                     @@ [name |-> event.name, sourceSpan |-> "span"] >>)
  IN Pushed(convertAst(event.handler, job))

\* ingestHostBinding(input): the new job with what the three loops pushed, until one
\* throws, and the input as the loops leave it
ingestHostBinding(input) ==
  LET RECURSIVE Properties(_, _, _)
      \* the loop over input.properties ?? [] at property i (null properties and null
      \* events are the empty lists); done holds the properties before i as their
      \* calls left them
      Properties(job, i, done) ==
        LET After(r) == Properties(r.job, i + 1, Append(done, r.property))
        IN IF job.err # "none" \/ i > Len(input.properties)
        THEN [ job |-> job,
               properties |-> done \o SubSeq(input.properties, i, Len(input.properties)) ]
        ELSE After(ingestHostProperty(job, input.properties[i], FALSE))
      RECURSIVE Attributes(_, _)
      Attributes(job, i) ==
        IF job.err # "none" \/ i > Len(input.attributes) THEN job
        ELSE Attributes(ingestHostAttribute(job, input.attributes[i].name,
                                            input.attributes[i].value), i + 1)
      RECURSIVE Events(_, _)
      Events(job, i) ==
        IF job.err # "none" \/ i > Len(input.events) THEN job
        ELSE Events(ingestHostEvent(job, input.events[i]), i + 1)
      Rest(p) == [ job |-> Events(Attributes(p.job, 1), 1),
                   input |-> [input EXCEPT !.properties = p.properties] ]
  IN Rest(Properties([ units |-> <<[xref |-> RootXref, create |-> <<>>, update |-> <<>>]>>,
                       nextXref |-> RootXref + 1, err |-> "none" ], 1, <<>>))

\* ingestHostBinding(input, ..) called on the input at cur: units holds the root unit
\* of every job returned so far, pc.u their number; a throw returns no job
IngestHostBinding ==
  /\ pc.phase = "ingestHostBinding" /\ pc.at = "ready" /\ pc.u < MaxHostJobs
  /\ LET Returned(r) ==
           /\ cur' = r.input
           /\ err' = r.job.err
           /\ units' = IF r.job.err # "none" THEN units ELSE Append(units, r.job.units[1])
           /\ pc' = IF r.job.err # "none" THEN [pc EXCEPT !.at = "aborted"]
                    ELSE [pc EXCEPT !.u = @ + 1]
     IN Returned(ingestHostBinding(cur))
  /\ UNCHANGED <<nextXref, currentI18nOp, rootContexts, snap>>

\* the host-binding inputs: at most two properties, an attribute or none, an event or
\* none
InitHost ==
  LET Ast(kind, name, sub) == Expr(kind, name, NULL, sub)
      read(n) == Ast("PropertyRead", n, <<Ast("ImplicitReceiver", "", <<>>)>>)
      badCall == Ast("Call", "", <<Ast("ImplicitReceiver", "", <<>>)>>)
      properties ==
        { [name |-> n, isAnimation |-> a, expression |-> x] :
            n \in {<<"title">>, <<"attr.", "title">>, <<"attr.", "attr.", "x">>},
            a \in BOOLEAN,
            x \in {read("t"), Ast("Interpolation", "", <<read("t")>>), badCall} }
      events ==
        { [name |-> "click", targetOrPhase |-> NullStr, handler |-> read("h")],
          [name |-> "@a", targetOrPhase |-> "done", handler |-> read("h")],
          [name |-> "click", targetOrPhase |-> NullStr, handler |-> badCall] }
  IN /\ \E p \in SeqsUpTo(properties, 2) :
        \E a \in {<<>>, <<[name |-> "role", value |-> Lit]>>} :
        \E e \in SeqsUpTo(events, 1) :
          cur = [properties |-> p, attributes |-> a, events |-> e]
     /\ units = <<>>
     /\ nextXref = RootXref + 1
     /\ pc = At("ingestHostBinding", "ready", 0)
     /\ err = "none"
     /\ currentI18nOp = NoOp /\ rootContexts = {}
     /\ snap = cur

NextHost == IngestHostBinding

SpecHost == InitHost /\ [][NextHost]_vars

\* ---------------------------------------------------------------------------
\* Event replay (withEventReplay)
\* ---------------------------------------------------------------------------

\* calls of the listener-registration hook in one run
MaxListenerCalls == 2

\* the value JavaScript calls undefined, as a container and as early jsaction data
UndefinedContainer == [defined |-> FALSE, _ejsa |-> [defined |-> FALSE, et |-> <<>>, etc |-> <<>>]]

\* globalThis[CONTRACT_PROPERTY]?.[appId]: undefined when the global is undefined or
\* has no container under appId
containerOfApp(ngContracts, appId) ==
  IF ~ngContracts.defined THEN UndefinedContainer
  ELSE IF \E c \in ngContracts.apps : c.id = appId
       THEN (CHOOSE c \in ngContracts.apps : c.id = appId).container
       ELSE UndefinedContainer

\* getJsactionData: container._ejsa; reading a property of undefined throws
getJsactionData(container) ==
  IF ~container.defined
  THEN [thrown |-> TRUE, value |-> UndefinedContainer._ejsa]
  ELSE [thrown |-> FALSE, value |-> container._ejsa]

\* the function the environment initializer installs as the hook: an element with
\* the jsaction attribute enters jsactionSet and collects the event names of its
\* listeners
disableEventReplayFn(elements, rEl, eventName) ==
  IF elements[rEl].jsaction
  THEN [elements EXCEPT ![rEl] =
          [@ EXCEPT !.inSet = TRUE,
                    !.fnsDefined = TRUE,
                    !.fns = Append(IF elements[rEl].inSet THEN @ ELSE <<>>, eventName)]]
  ELSE elements

\* the continuation of whenStable(appRef) in the bootstrap listener
whenStableContinuation(state) ==
  LET container == containerOfApp(state.ngContracts, state.appId)
      earlyJsactionData == getJsactionData(container)
  IN IF earlyJsactionData.thrown
     THEN [state |-> state, err |-> "TypeError: reading _ejsa of undefined"]
     ELSE IF earlyJsactionData.value.defined
     THEN [state |->
             [state EXCEPT
                !.eventContract = [created |-> TRUE,
                                   events |-> earlyJsactionData.value.et
                                                \o earlyJsactionData.value.etc,
                                   replayed |-> TRUE, dispatcher |-> TRUE],
                !.elements = [el \in DOMAIN state.elements |->
                                IF state.elements[el].inSet
                                THEN [state.elements[el] EXCEPT !.jsaction = FALSE,
                                                                !.fnsDefined = FALSE,
                                                                !.fns = <<>>]
                                ELSE state.elements[el]],
                !.impl = "noop"],
           err |-> "none"]
     ELSE [state |-> state, err |-> "none"]

\* ENVIRONMENT_INITIALIZER: the hook is set to the recording function
EnvironmentInitializer ==
  /\ pc.phase = "withEventReplay" /\ pc.at = "created"
  /\ cur' = [cur EXCEPT !.impl = "record"]
  /\ pc' = [pc EXCEPT !.at = "initialized"]
  /\ UNCHANGED <<units, nextXref, err, currentI18nOp, rootContexts, snap>>

\* a listener is registered on an element through the hook
DisableEventReplay ==
  /\ pc.phase = "withEventReplay" /\ pc.at \in {"initialized", "bootstrapped", "stable"}
  /\ pc.u < MaxListenerCalls
  /\ \E rEl \in DOMAIN cur.elements : \E eventName \in {"click", "input"} :
       cur' = IF cur.impl = "record"
              THEN [cur EXCEPT !.elements = disableEventReplayFn(@, rEl, eventName)]
              ELSE cur
  /\ pc' = [pc EXCEPT !.u = @ + 1]
  /\ UNCHANGED <<units, nextXref, err, currentI18nOp, rootContexts, snap>>

\* APP_BOOTSTRAP_LISTENER: in the browser the listener waits for stability, on the
\* server it is a noop
BootstrapListener ==
  /\ pc.phase = "withEventReplay" /\ pc.at = "initialized"
  /\ pc' = [pc EXCEPT !.at = IF cur.isPlatformBrowser THEN "bootstrapped" ELSE "stable"]
  /\ snap' = cur
  /\ UNCHANGED <<units, nextXref, err, cur, currentI18nOp, rootContexts>>

\* the application became stable: the continuation runs
WhenStable ==
  /\ pc.phase = "withEventReplay" /\ pc.at = "bootstrapped"
  /\ LET Returned(r) == cur' = r.state /\ err' = r.err
     IN Returned(whenStableContinuation(cur))
  /\ pc' = [pc EXCEPT !.at = "stable"]
  /\ snap' = cur
  /\ UNCHANGED <<units, nextXref, currentI18nOp, rootContexts>>

\* an application with two elements, rendered on the server with or without events
InitReplay ==
  LET data == [defined |-> TRUE, et |-> <<"click">>, etc |-> <<"focus">>]
      containers == {[defined |-> TRUE, _ejsa |-> data],
                     [defined |-> TRUE, _ejsa |-> UndefinedContainer._ejsa]}
      globals == {[defined |-> FALSE, apps |-> {}], [defined |-> TRUE, apps |-> {}]}
                   \cup {[defined |-> TRUE, apps |-> {[id |-> i, container |-> c]}] :
                           i \in {"ng", "other"}, c \in containers}
  IN /\ \E g \in globals : \E browser \in BOOLEAN : \E withAttr \in SUBSET {"e1", "e2"} :
          cur = [ngContracts |-> g, appId |-> "ng", isPlatformBrowser |-> browser,
                 impl |-> "unset",
                 eventContract |-> [created |-> FALSE, events |-> <<>>,
                                    replayed |-> FALSE, dispatcher |-> FALSE],
                 elements |-> [el \in {"e1", "e2"} |->
                                 [jsaction |-> el \in withAttr, inSet |-> FALSE,
                                  fnsDefined |-> FALSE, fns |-> <<>>]]]
     /\ units = <<>>
     /\ nextXref = RootXref + 1
     /\ pc = At("withEventReplay", "created", 0)
     /\ err = "none"
     /\ currentI18nOp = NoOp /\ rootContexts = {}
     /\ snap = cur

NextReplay == EnvironmentInitializer \/ DisableEventReplay \/ BootstrapListener \/ WhenStable

SpecReplay == InitReplay /\ [][NextReplay]_vars

\* ---------------------------------------------------------------------------
\* ThemeManager
\* ---------------------------------------------------------------------------

\* setTheme calls and colour-scheme change events in one run
MaxThemeCalls == 3

DARK_MODE_CLASS_NAME == "adev-dark-mode"

LIGHT_MODE_CLASS_NAME == "adev-light-mode"

\* preferedScheme: what the media query (prefers-color-scheme: dark) matches now
preferedScheme(state) == IF state.prefersDark THEN "dark" ELSE "light"

\* setThemeBodyClasses: one class added to the document element and the other
\* removed, then themeChanged$ emits
setThemeBodyClasses(state, theme) ==
  [state EXCEPT
     !.classList = IF theme = "dark"
                   THEN (@ \cup {DARK_MODE_CLASS_NAME}) \ {LIGHT_MODE_CLASS_NAME}
                   ELSE (@ \cup {LIGHT_MODE_CLASS_NAME}) \ {DARK_MODE_CLASS_NAME},
     !.themeChanged = @ + 1]

\* getThemeFromLocalStorageValue: the stored preference or null
getThemeFromLocalStorageValue(state) == state.localStorage

\* setThemeInLocalStorage: the theme signal is stored unless it is null
setThemeInLocalStorage(state) ==
  IF state.theme # NullStr THEN [state EXCEPT !.localStorage = state.theme] ELSE state

\* setTheme
setTheme(state, theme) ==
  LET stored == setThemeInLocalStorage([state EXCEPT !.theme = theme])
  IN setThemeBodyClasses(stored, IF theme = "auto" THEN preferedScheme(stored) ELSE theme)

\* loadThemePreference: the stored preference, 'auto' without one
loadThemePreference(state) ==
  LET savedUserPreference == getThemeFromLocalStorageValue(state)
      useTheme == IF savedUserPreference # NullStr THEN savedUserPreference ELSE "auto"
      loaded == [state EXCEPT !.theme = useTheme]
  IN setThemeBodyClasses(loaded, IF useTheme = "auto" THEN preferedScheme(loaded) ELSE useTheme)

\* the constructor: outside the browser it returns at once, in the browser it loads the
\* preference and starts listening to the media query
ThemeManagerConstructor ==
  /\ pc.phase = "ThemeManager" /\ pc.at = "new"
  /\ cur' = IF ~cur.isPlatformBrowser THEN cur
            ELSE [loadThemePreference(cur) EXCEPT !.watching = TRUE]
  /\ pc' = [pc EXCEPT !.at = "constructed"]
  /\ snap' = cur
  /\ UNCHANGED <<units, nextXref, err, currentI18nOp, rootContexts>>

\* setTheme is called with one of the three themes (in the browser: outside it there
\* is no window for preferedScheme to ask)
SetTheme ==
  /\ pc.phase = "ThemeManager" /\ pc.at = "constructed" /\ cur.isPlatformBrowser
  /\ pc.u < MaxThemeCalls
  /\ \E theme \in {"dark", "light", "auto"} : cur' = setTheme(cur, theme)
  /\ pc' = [pc EXCEPT !.u = @ + 1]
  /\ snap' = cur
  /\ UNCHANGED <<units, nextXref, err, currentI18nOp, rootContexts>>

\* the colour scheme of the operating system changes and the listener of
\* watchPreferedColorScheme receives the change event
PreferedColorSchemeChange ==
  /\ pc.phase = "ThemeManager" /\ pc.at = "constructed" /\ cur.watching
  /\ pc.u < MaxThemeCalls
  /\ LET event == [matches |-> ~cur.prefersDark]
         changed == [cur EXCEPT !.prefersDark = event.matches]
     IN cur' = setThemeBodyClasses(changed, IF event.matches THEN "dark" ELSE "light")
  /\ pc' = [pc EXCEPT !.u = @ + 1]
  /\ snap' = cur
  /\ UNCHANGED <<units, nextXref, err, currentI18nOp, rootContexts>>

\* before the constructor body: the theme signal holds the stored preference; the
\* document may carry classes set by the page itself
InitTheme ==
  /\ \E stored \in {NullStr, "dark", "light", "auto"} :
     \E classes \in SUBSET {DARK_MODE_CLASS_NAME, LIGHT_MODE_CLASS_NAME, "docs"} :
     \E dark \in BOOLEAN : \E browser \in BOOLEAN :
       cur = [theme |-> stored, localStorage |-> stored, classList |-> classes,
              prefersDark |-> dark, isPlatformBrowser |-> browser, watching |-> FALSE,
              themeChanged |-> 0]
  /\ units = <<>>
  /\ nextXref = RootXref + 1
  /\ pc = At("ThemeManager", "new", 0)
  /\ err = "none"
  /\ currentI18nOp = NoOp /\ rootContexts = {}
  /\ snap = cur

NextTheme == ThemeManagerConstructor \/ SetTheme \/ PreferedColorSchemeChange

SpecTheme == InitTheme /\ [][NextTheme]_vars

----------------------------------------------------------------------------
(* Properties of reify. *)

\* every op of every create and update list of the job
ListedOps(job) ==
  UNION {{job[u].create[i] : i \in 1..Len(job[u].create)}
           \cup {job[u].update[i] : i \in 1..Len(job[u].update)} : u \in 1..Len(job)}

\* C1: after reify returns without error, every op of every unit's create list and
\* update list has kind Statement
C1_OnlyStatementsLeft ==
  ReifyReturned => \A op \in ListedOps(units) : op.kind = "Statement"

\* reify returned for a job that held a Namespace op for MathML next to an update op
\* that was no Statement
C1_Witness ==
  /\ ReifyReturned
  /\ \E op \in ListedOps(snap) : op.kind = "Namespace" /\ op.aux = "Math"
  /\ \E i \in 1..Len(snap[1].update) : snap[1].update[i].kind # "Statement"

\* the instructions whose first argument is the slot of a SlotHandle
SlotInstructions ==
  { "text", "elementStart", "element", "elementContainerStart", "elementContainer",
    "i18nStart", "i18n", "pipe", "defer", "template", "projection", "repeaterCreate",
    "i18nApply", "conditional" }

\* an emitted instruction that carries a null slot or null view metadata
CarriesNull(op) ==
  /\ op.kind = "Statement"
  /\ \/ op.instr \in SlotInstructions /\ op.slot = NULL
     \/ op.instr = "template" /\ (op.fnName = NullStr \/ op.decls = NULL \/ op.vars = NULL)
     \/ op.instr = "repeaterCreate"
          /\ (op.fnName = NullStr \/ op.decls = NULL \/ op.vars = NULL)

\* C5: reification never emits an instruction carrying a null slot or null view
\* metadata: an op with an unresolved slot, or a Template/RepeaterCreate op whose view
\* has no function name, decl count or var count, makes reify abort
C5_NeverEmitsNull ==
  \A op \in ListedOps(units) : ~CarriesNull(op)

\* whether an IR expression kind occurs in the op or in its handler ops
OpHasIrExpression(op) ==
  \/ \E i \in 1..Len(op.exprs) : HasIrExpression(op.exprs[i])
  \/ \E h \in 1..Len(op.handlerOps) : \E i \in 1..Len(op.handlerOps[h].exprs) :
       HasIrExpression(op.handlerOps[h].exprs[i])

\* the expression kinds reifyIrExpression rewrites when their fields are resolved
ReifiableKinds ==
  { "NextContext", "Reference", "RestoreView", "ResetView", "GetCurrentView", "ReadVariable",
    "ReadTemporaryExpr", "AssignTemporaryExpr", "PureFunctionExpr", "PipeBinding",
    "PipeBindingVariadic", "SanitizerExpr", "SlotLiteralExpr" }

RECURSIVE HasUnreifiable(_)
\* whether the tree holds a LexicalRead or an IR expression kind with no reification case
HasUnreifiable(expr) ==
  \/ isIrExpression(expr) /\ expr.kind \notin ReifiableKinds
  \/ \E i \in 1..Len(expr.sub) : HasUnreifiable(expr.sub[i])

OpHasUnreifiable(op) ==
  \/ \E i \in 1..Len(op.exprs) : HasUnreifiable(op.exprs[i])
  \/ \E h \in 1..Len(op.handlerOps) : \E i \in 1..Len(op.handlerOps[h].exprs) :
       HasUnreifiable(op.handlerOps[h].exprs[i])

\* C2: after reify returns without error no IR expression kind is left in any op of
\* any unit, and a job that held a LexicalRead or an IR expression kind without a
\* reification case did not come through: reify aborted on it
C2_NoIrExpressionLeft ==
  /\ ReifyReturned =>
       /\ \A op \in ListedOps(units) : ~OpHasIrExpression(op)
       /\ \A op \in ListedOps(snap) : ~OpHasUnreifiable(op)
  /\ (pc.at = "update" /\ pc.u = 1) =>
       \A i \in 1..Len(snap[1].create) : ~OpHasUnreifiable(snap[1].create[i])

\* reify returned for a job that held an IR expression below another expression
C2_Witness ==
  /\ ReifyReturned
  /\ \E op \in ListedOps(snap) :
       \/ \E i \in 1..Len(op.exprs) :
            \E j \in 1..Len(op.exprs[i].sub) : isIrExpression(op.exprs[i].sub[j])
       \/ \E h \in 1..Len(op.handlerOps) :
            \E j \in 1..Len(op.handlerOps[h].exprs[1].sub) :
              isIrExpression(op.handlerOps[h].exprs[1].sub[j])

----------------------------------------------------------------------------
(* Properties of resolveSanitizers. *)

\* the binding ops resolveSanitizers has gone through: all when it returned, those
\* before cur while it runs or after it aborted
SanProcessed ==
  {at \in {[u |-> u, i |-> i] : u \in 1..Len(units), i \in 1..MaxSanOps} :
     /\ at.i <= Len(units[at.u].update)
     /\ units[at.u].update[at.i].kind \in {"Property", "Attribute"}
     /\ pc.at = "done" \/ at.u < cur.u \/ (at.u = cur.u /\ at.i < cur.i)}

\* the sanitizer the table and the iframe rule give a binding op
ExpectedSanitizer(unit, op) ==
  IF op.securityContext \in DOMAIN sanitizers THEN sanitizers[op.securityContext]
  ELSE IF HasOwner(unit, op) /\ isIframeElement(unit.create[elementsGet(unit, op.target)])
            /\ isIframeSecuritySensitiveAttr(op.name)
  THEN SanitizerFn.IframeAttribute
  ELSE NULL

\* C3: every Property/Attribute op gets the sanitizer the table gives for its security
\* context, and without a table entry the iframe-attribute sanitizer iff its owner is
\* an iframe and its name is iframe-security-sensitive, null otherwise
C3_TableThenIframe ==
  pc.phase = "resolveSanitizers" =>
    \A at \in SanProcessed :
      units[at.u].update[at.i].sanitizer
        = ExpectedSanitizer(units[at.u], units[at.u].update[at.i])

\* whether the table lookup leaves the op without sanitizer
LeftWithoutSanitizer(op) == ~Truthy(sanitizersGet(op.securityContext))

\* C4 as stated: resolveSanitizers aborts for every Property/Attribute op without
\* element-like owner, whatever its security context: it goes past no such op
C4_AbortsWhateverContext ==
  pc.phase = "resolveSanitizers" =>
    \A at \in SanProcessed : HasOwner(units[at.u], units[at.u].update[at.i])

\* C4 amended: resolveSanitizers aborts at a Property/Attribute op exactly when the
\* table lookup left the op without sanitizer and its target resolves to no
\* element-like owner op of its unit; an op with a table sanitizer is not checked
C4_AbortsWhenLeftWithoutSanitizer ==
  pc.phase = "resolveSanitizers" =>
    /\ \A at \in SanProcessed :
         LeftWithoutSanitizer(units[at.u].update[at.i])
           => HasOwner(units[at.u], units[at.u].update[at.i])
    /\ pc.at = "aborted" =>
         /\ units[cur.u].update[cur.i].kind \in {"Property", "Attribute"}
         /\ LeftWithoutSanitizer(units[cur.u].update[cur.i])
         /\ ~HasOwner(units[cur.u], units[cur.u].update[cur.i])

\* resolveSanitizers aborted at an op without owner after it went past an op with a
\* table sanitizer
C4_Witness ==
  /\ pc.phase = "resolveSanitizers" /\ pc.at = "aborted"
  /\ ~HasOwner(units[cur.u], units[cur.u].update[cur.i])
  /\ \E at \in SanProcessed : ~LeftWithoutSanitizer(units[at.u].update[at.i])

----------------------------------------------------------------------------
(* Properties of createI18nContexts. *)

I18nReturned == pc.phase = "createI18nContexts" /\ pc.at = "done"

\* the places of the ops of the create lists
CreatePlaces(job) ==
  UNION {{[u |-> u, i |-> i] : i \in 1..Len(job[u].create)} : u \in 1..Len(job)}

OpAt(job, at) == job[at.u].create[at.i]

\* the I18nContext ops of the job with that kind for that block
ContextOpsFor(job, contextKind, i18nBlock) ==
  {at \in CreatePlaces(job) :
     /\ OpAt(job, at).kind = "I18nContext"
     /\ OpAt(job, at).contextKind = contextKind
     /\ OpAt(job, at).i18nBlock = i18nBlock}

\* the xref is none of the job before the phase, and of one op only of the job
FreshXref(xref) ==
  /\ xref # NULL
  /\ \A at \in CreatePlaces(snap) : OpAt(snap, at).xref # xref
  /\ \A u \in 1..Len(snap) : snap[u].xref # xref
  /\ Cardinality({at \in CreatePlaces(units) : OpAt(units, at).xref = xref}) = 1

EnclosingBlock(job, at) ==
  LET starts == {j \in 1..(at.i - 1) :
                   /\ job[at.u].create[j].kind = "I18nStart"
                   /\ \A k \in (j + 1)..(at.i - 1) : job[at.u].create[k].kind # "I18nEnd"}
  IN IF starts = {} THEN [u |-> at.u, i |-> 0]
     ELSE [u |-> at.u, i |-> CHOOSE j \in starts : \A k \in starts : k <= j]

\* C7: after createI18nContexts an IcuStart op whose message id differs from that of
\* the enclosing block has an Icu context of its own, and an IcuStart op whose message
\* id is that of the enclosing block has the context the enclosing I18nStart op has at
\* the end of the phase, for a root block and for a child block
C7_IcuSharesBlockContext ==
  I18nReturned =>
    \A at \in CreatePlaces(units) :
      (OpAt(units, at).kind = "IcuStart" /\ EnclosingBlock(units, at).i # 0) =>
        IF OpAt(units, at).message # OpAt(units, EnclosingBlock(units, at)).message
        THEN /\ FreshXref(OpAt(units, at).context)
             /\ \E c \in ContextOpsFor(units, "Icu",
                                       OpAt(units, EnclosingBlock(units, at)).xref) :
                  OpAt(units, c).xref = OpAt(units, at).context
        ELSE OpAt(units, at).context = OpAt(units, EnclosingBlock(units, at)).context

\* C8: after createI18nContexts every child I18nStart op, in whatever unit and at
\* whatever place relative to its root, has a defined context, the one of its root block
C8_ChildHasRootContext ==
  I18nReturned =>
    \A at \in CreatePlaces(units) :
      (OpAt(units, at).kind = "I18nStart" /\ OpAt(units, at).xref # OpAt(units, at).root) =>
        /\ OpAt(units, at).context # NULL
        /\ \E r \in CreatePlaces(units) :
             /\ OpAt(units, r).kind = "I18nStart"
             /\ OpAt(units, r).xref = OpAt(units, at).root
             /\ OpAt(units, r).context = OpAt(units, at).context

\* the phase returned for a job whose child block comes before its root block
C8_Witness ==
  /\ I18nReturned
  /\ \E at \in CreatePlaces(units) : \E r \in CreatePlaces(units) :
       /\ OpAt(units, at).kind = "I18nStart" /\ OpAt(units, r).kind = "I18nStart"
       /\ OpAt(units, at).xref # OpAt(units, at).root
       /\ OpAt(units, r).xref = OpAt(units, at).root
       /\ at.u < r.u \/ (at.u = r.u /\ at.i < r.i)

\* the places the first loop has gone through without error
I18nVisited ==
  {at \in CreatePlaces(snap) :
     \/ pc.at \in {"second", "done"}
     \/ at.u < cur.u \/ (at.u = cur.u /\ at.i < cur.i)}

\* C9: createI18nContexts aborts whenever it meets an IcuStart op that is not between
\* an I18nStart op and its I18nEnd op: it goes past no such op, and where it aborts
\* the op is such an op
C9_AbortsOnIcuOutsideBlock ==
  pc.phase = "createI18nContexts" =>
    /\ \A at \in I18nVisited :
         OpAt(snap, at).kind = "IcuStart" => EnclosingBlock(snap, at).i # 0
    /\ pc.at = "aborted" =>
         OpAt(snap, cur).kind = "IcuStart" /\ EnclosingBlock(snap, cur).i = 0

\* the phase aborted at an ICU that follows a closed i18n block
C9_Witness ==
  /\ pc.phase = "createI18nContexts" /\ pc.at = "aborted"
  /\ OpAt(snap, cur).kind = "IcuStart"
  /\ \E j \in 1..(cur.i - 1) : snap[cur.u].create[j].kind = "I18nEnd"

----------------------------------------------------------------------------
(* Properties of resolveDollarEvent followed by reify. *)

\* whether the handler ops of the listener hold a lexical read of that name
HandlerReads(op, name) ==
  \E h \in 1..Len(op.handlerOps) : \E i \in 1..Len(op.handlerOps[h].exprs) :
    HasLexicalRead(op.handlerOps[h].exprs[i], name)

\* C10: after resolveDollarEvent and reify the handler function of a listener declares
\* the parameter $event iff the handler ops of the listener held a lexical read of
\* $event before resolveDollarEvent; resolveDollarEvent leaves the ops that are no
\* Listener ops, lexical reads of $event included, as they were
C10_EventParamIffLexicalRead ==
  /\ pc.phase = "reify" =>
       \A at \in CreatePlaces(units) :
         (OpAt(snap, at).kind = "Listener" /\ OpAt(units, at).kind = "Statement") =>
           /\ OpAt(units, at).instr = "listener"
           /\ OpAt(units, at).params
                = IF HandlerReads(OpAt(snap, at), "$event") THEN <<"$event">> ELSE <<>>
  /\ pc = At("reify", "create", 1) =>
       \A u \in 1..Len(units) :
         /\ \A i \in 1..Len(units[u].create) :
              snap[u].create[i].kind # "Listener" => units[u].create[i] = snap[u].create[i]
         /\ \A i \in 1..Len(units[u].update) :
              snap[u].update[i].kind # "Listener" => units[u].update[i] = snap[u].update[i]

\* reify returned for a job with a listener that read $event below another expression
\* and a listener that held no lexical read of $event
C10_Witness ==
  /\ ReifyReturned
  /\ \E at \in CreatePlaces(units) :
       /\ OpAt(snap, at).kind = "Listener"
       /\ HandlerReads(OpAt(snap, at), "$event")
       /\ ~\E h \in 1..Len(OpAt(snap, at).handlerOps) :
             OpAt(snap, at).handlerOps[h].exprs[1].kind = "LexicalRead"
  /\ \E at \in CreatePlaces(units) :
       OpAt(snap, at).kind = "Listener" /\ ~HandlerReads(OpAt(snap, at), "$event")

----------------------------------------------------------------------------
(* Properties of ingestion. *)

\* the first node of the template has been ingested, and no other
IngestedFirst == pc.phase = "ingest" /\ Len(cur) = Len(snap.template) - 1

\* the control-flow wrapper of the node ingested first, an @if or an @for: the view
\* allocated first (of the first branch, or the repeater view), the wrapper ops
\* for it in the create list of the ingesting view (a Template or a RepeaterCreate
\* op), the bindings of the update list that target it, and the children of the
\* first branch or of the @for that are no comments
Wrapper ==
  LET node == snap.template[1]
      children == IF node.kind = "IfBlock" THEN node.branches[1].children ELSE node.children
      create == units[pc.u].create
      update == units[pc.u].update
  IN [ ops |-> SelectSeq(create, LAMBDA op : op.kind \in {"Template", "RepeaterCreate"}
                                            /\ op.xref = snap.nextXref),
       bindings |-> SelectSeq(update, LAMBDA op : op.kind = "Binding"
                                                 /\ op.xref = snap.nextXref),
       roots |-> SelectSeq(children, LAMBDA c : c.kind # "Comment") ]

\* one static Attribute binding with a text value per attribute of root, on the wrapper
StaticBindings(root) ==
  [i \in 1..Len(root.attributes) |->
     [ kind |-> "Binding", xref |-> snap.nextXref, bindingKind |-> "Attribute",
       name |-> root.attributes[i].name,
       exprs |-> <<Expr("LiteralExpr", root.attributes[i].value, NULL, <<>>)>>,
       interp |-> FALSE, isTextAttribute |-> TRUE, isStructuralTemplateAttribute |-> FALSE ]]

C12_NoCopyUnlessSingleRoot ==
  (IngestedFirst /\ snap.template[1].kind \in {"IfBlock", "ForLoopBlock"}
     /\ ~(Len(Wrapper.roots) = 1 /\ Wrapper.roots[1].kind \in {"Element", "Template"})
     /\ Wrapper.ops # <<>>)
  => /\ Wrapper.ops[1].aux = NullStr
     /\ Wrapper.bindings = <<>>

\* C13: when the only child that is no comment of the first branch of an @if, or of
\* an @for, is an ng-template, the wrapper carries no tag name, and the bindings on
\* it are one static Attribute binding per static attribute of the ng-template.
C13_NgTemplateTagNotCopied ==
  (IngestedFirst /\ snap.template[1].kind \in {"IfBlock", "ForLoopBlock"}
     /\ Len(Wrapper.roots) = 1 /\ Wrapper.roots[1].kind = "Template"
     /\ Wrapper.roots[1].name = "ng-template" /\ Wrapper.ops # <<>>)
  => /\ Len(Wrapper.ops) = 1
     /\ Wrapper.ops[1].aux = NullStr
     /\ Wrapper.bindings = StaticBindings(Wrapper.roots[1])

\* an @for over a single ng-template with the attributes foo and bar was ingested
C13_Witness ==
  /\ IngestedFirst /\ err = "none"
  /\ snap.template[1].kind = "ForLoopBlock"
  /\ Len(Wrapper.roots) = 1 /\ Wrapper.roots[1].name = "ng-template"
  /\ Wrapper.ops # <<>> /\ Wrapper.ops[1].kind = "RepeaterCreate"
  /\ Len(Wrapper.bindings) = 2

\* C14: a deferred block that was ingested has, next to one DeferOn op per trigger
\* its groups configure, a default Idle DeferOn op exactly when its primary group
\* configures no trigger at all; the default is not a prefetch op, and the prefetch
\* group never gets one.
C14_DefaultIdleForPrimaryOnly ==
  LET node == snap.template[1]
      ons == SelectSeq(units[pc.u].create, LAMBDA op : op.kind = "DeferOn")
      primary == SelectSeq(ons, LAMBDA op : ~op.prefetch)
      prefetching == SelectSeq(ons, LAMBDA op : op.prefetch)
  IN (IngestedFirst /\ node.kind = "DeferredBlock" /\ err = "none")
     => /\ {prefetching[i].aux : i \in 1..Len(prefetching)} = node.prefetchTriggers.on
        /\ Len(prefetching) = Cardinality(node.prefetchTriggers.on)
        /\ IF node.triggers.on = {} /\ node.triggers.when = NoOp
           THEN Len(primary) = 1 /\ primary[1].aux = "Idle"
           ELSE /\ {primary[i].aux : i \in 1..Len(primary)} = node.triggers.on
                /\ Len(primary) = Cardinality(node.triggers.on)

\* a deferred block with a placeholder, no primary trigger and no prefetch trigger was
\* ingested: one Idle op, and it is no prefetch op
C14_Witness ==
  LET node == snap.template[1]
      ons == SelectSeq(units[pc.u].create, LAMBDA op : op.kind = "DeferOn")
  IN /\ IngestedFirst /\ node.kind = "DeferredBlock" /\ err = "none"
     /\ node.placeholder.present
     /\ node.triggers.on = {} /\ node.triggers.when = NoOp
     /\ node.prefetchTriggers.on = {} /\ node.prefetchTriggers.when = NoOp
     /\ Len(ons) = 1 /\ ons[1].aux = "Idle" /\ ~ons[1].prefetch

\* C15: a Defer op that was reified has its timer scheduling flag set exactly when one
\* of its three times is present, a time of 0 included.
C15_TimerSchedulingIffTimePresent ==
  ReifyReturned =>
    \A i \in 1..Len(snap[1].create) :
      LET op == snap[1].create[i]
      IN op.kind = "Defer" =>
           (units[1].create[i].timerScheduling <=>
              (\/ op.placeholderMinimumTime # NULL
               \/ op.loadingMinimumTime # NULL
               \/ op.loadingAfterTime # NULL))

\* C16: after an @for block is ingested, the tables of its repeater view hold seven
\* names: the item, $index and $count names as context variables, each mapped to its
\* source value, and the $first, $last, $even and $odd names as aliases, each a
\* DerivedRepeaterVarExpr on the repeater view; the names are those of the template
\* where it renames them, so that a name given to $index reads the source $index.
C16_RepeaterTablesHoldSevenNames ==
  LET node == snap.template[1]
      cv == node.contextVariables
      view == units[Len(snap.units) + 1]
      Derived(repeaterVar) == Expr("DerivedRepeaterVar", repeaterVar, view.xref, <<>>)
      table == view.contextVariables
      aliases == view.aliases
  IN (IngestedFirst /\ node.kind = "ForLoopBlock" /\ err = "none")
     => /\ view.xref = snap.nextXref
        /\ Len(table) = 3
        /\ {table[i] : i \in 1..3} = { <<node.item.name, node.item.value>>,
                                       <<cv.index.name, "$index">>,
                                       <<cv.count.name, "$count">> }
        /\ Len(aliases) = 4
        /\ {<<aliases[i].identifier, aliases[i].expression>> : i \in 1..4}
             = { <<cv.first.name, Derived("First")>>, <<cv.last.name, Derived("Last")>>,
                 <<cv.even.name, Derived("Even")>>, <<cv.odd.name, Derived("Odd")>> }
        /\ Cardinality({table[i][1] : i \in 1..3}
                         \cup {aliases[i].identifier : i \in 1..4}) = 7

\* an @for block that names $index idx was ingested: idx reads the source $index
C16_Witness ==
  LET node == snap.template[1]
      table == units[Len(snap.units) + 1].contextVariables
  IN /\ IngestedFirst /\ node.kind = "ForLoopBlock" /\ err = "none"
     /\ node.contextVariables.index.name = "idx"
     /\ \E i \in 1..Len(table) : table[i] = <<"idx", "$index">>
     /\ \A i \in 1..Len(table) : table[i][1] # "$index"

\* C17: the track expression of an @for block is converted to the same expression
\* whether the block is ingested into the root view or into a view nested in an
\* ng-template: the block ingested into the view at hand and the same block
\* ingested into the root view of a job of one view carry the same track
\* expression, or both conversions throw the same error.
C17_TrackIndependentOfUnit ==
  LET node == snap.template[1]
      root == allocateView([units |-> <<>>, nextXref |-> RootXref, err |-> "none"], NULL)
      Tracks(ops) ==
        LET repeaters == SelectSeq(ops, LAMBDA op : op.kind = "RepeaterCreate")
        IN [i \in 1..Len(repeaters) |-> repeaters[i].exprs]
      Same(atRoot) ==
        /\ err = atRoot.err
        /\ err = "none" =>
              /\ Tracks(units[pc.u].create) = Tracks(atRoot.units[1].create)
              /\ Len(Tracks(units[pc.u].create)) = 1
  IN (IngestedFirst /\ node.kind = "ForLoopBlock") => Same(ingestForBlock(root, 1, node))

\* the block tracked by trackFn($index, item) was ingested into the nested view: a
\* call of the lexical read of trackFn with the two lexical reads as arguments
C17_Witness ==
  LET node == snap.template[1]
      repeaters == SelectSeq(units[pc.u].create, LAMBDA op : op.kind = "RepeaterCreate")
  IN /\ IngestedFirst /\ node.kind = "ForLoopBlock" /\ err = "none"
     /\ pc.u = 2 /\ units[pc.u].xref = ChildXref
     /\ Len(repeaters) = 1
     /\ repeaters[1].exprs =
          << Expr("InvokeFunctionExpr", "", NULL,
                  <<LexicalRead("trackFn"), LexicalRead("$index"), LexicalRead("item")>>) >>

\* C18: an element's listener whose handler is a chain of n >= 1 expressions gets n
\* handler ops in chain order, expression statements but for the last, which returns
\* the final expression; a chain of no expression aborts ingestion, and no listener
\* op is in a create list.
C18_ListenerChainStatements ==
  LET node == snap.template[1]
      job == [units |-> snap.units, nextXref |-> snap.nextXref, err |-> "none"]
      listeners == SelectSeq(units[pc.u].create, LAMBDA op : op.kind = "Listener")
      Chain(handler) ==
        LET n == Len(handler.sub)
            converted == [i \in 1..n |-> convertAst(handler.sub[i], job)]
        IN (handler.kind = "Chain" /\ \A i \in 1..n : ~IsThrown(converted[i]))
           => IF n = 0
              THEN /\ err = "Expected listener to have non-empty expression list."
                   /\ pc.at = "aborted"
                   /\ listeners = <<>>
              ELSE /\ err = "none"
                   /\ Len(listeners) = 1
                   /\ listeners[1].xref = snap.nextXref
                   /\ Len(listeners[1].handlerOps) = n
                   /\ \A i \in 1..n :
                        listeners[1].handlerOps[i] =
                          createStatementOp(IF i < n THEN "ExpressionStatement"
                                            ELSE "ReturnStatement", <<converted[i]>>)
  IN (/\ IngestedFirst /\ node.kind = "Element"
      /\ Len(node.outputs) = 1 /\ node.outputs[1].type = "Regular")
     => Chain(IF node.outputs[1].handler.kind = "ASTWithSource"
              THEN node.outputs[1].handler.sub[1] ELSE node.outputs[1].handler)

\* the listener of a chain of MaxHandlerExprs expressions was ingested
C18_Witness ==
  LET node == snap.template[1]
      listeners == SelectSeq(units[pc.u].create, LAMBDA op : op.kind = "Listener")
  IN /\ IngestedFirst /\ node.kind = "Element" /\ err = "none"
     /\ Len(node.outputs) = 1 /\ node.outputs[1].handler.kind = "Chain"
     /\ Len(node.outputs[1].handler.sub) = MaxHandlerExprs
     /\ Len(listeners) = 1
     /\ Len(listeners[1].handlerOps) = MaxHandlerExprs
     /\ listeners[1].handlerOps[MaxHandlerExprs].instr = "ReturnStatement"
     /\ listeners[1].handlerOps[1].instr = "ExpressionStatement"

C20_ContextOfOwningView ==
  LET RECURSIVE Contexts(_)
      Contexts(e) ==
        (IF e.kind = "Context" THEN {e.num} ELSE {})
        \cup UNION {Contexts(e.sub[i]) : i \in 1..Len(e.sub)}
      OfOp(op) == UNION {Contexts(op.exprs[j]) : j \in 1..Len(op.exprs)}
      OfOps(ops) == UNION {OfOp(ops[i]) : i \in 1..Len(ops)}
      OfList(ops) ==
        OfOps(ops)
        \cup UNION {OfOps(ops[i].handlerOps) :
                      i \in {j \in 1..Len(ops) : ops[j].kind = "Listener"}}
  IN (IngestedFirst /\ err = "none" /\ snap.template[1].kind \in {"ForLoopBlock", "Element"})
     => OfList(units[pc.u].create) \cup OfList(units[pc.u].update) \subseteq {units[pc.u].xref}

----------------------------------------------------------------------------
(* Properties of a phase run twice. *)

\* C21: a second run of resolveSanitizers on the job the first run returned leaves
\* every Property/Attribute op with the sanitizer, or the absence of one, it had after
\* the first run, and returns as the first run did.
C21_SanitizersIdempotent ==
  (pc.phase = "resolveSanitizers" /\ pc.u = 1)
  => /\ err = "none"
     /\ \A u \in 1..Len(units) : \A i \in 1..Len(units[u].update) :
          units[u].update[i].sanitizer = snap[u].update[i].sanitizer

\* the second run returned on a job with an op that got a table sanitizer and an op
\* that got the iframe sanitizer
C21_Witness ==
  LET ops == UNION {{units[u].update[i] : i \in 1..Len(units[u].update)} : u \in 1..Len(units)}
  IN /\ pc.phase = "resolveSanitizers" /\ pc.u = 1 /\ pc.at = "done"
     /\ \E op \in ops : op.kind = "Property" /\ op.sanitizer = SanitizerFn.Url
     /\ \E op \in ops : op.sanitizer = SanitizerFn.IframeAttribute

\* C22: a second run of createI18nContexts on the job the first run returned changes
\* neither the context of an I18nStart or IcuStart op nor the number of I18nContext
\* ops of a create list.
C22_I18nContextsIdempotent ==
  LET Contexts(ops) == SelectSeq(ops, LAMBDA op : op.kind = "I18nContext")
  IN (pc.phase = "createI18nContexts" /\ pc.u = 1 /\ pc.at = "done")
     => \A u \in 1..Len(units) :
          /\ Len(Contexts(units[u].create)) = Len(Contexts(snap[u].create))
          /\ \A i \in 1..Len(snap[u].create) :
               snap[u].create[i].kind \in {"I18nStart", "IcuStart"}
                 => units[u].create[i].context = snap[u].create[i].context

\* C23: every op ingestion puts in a create or update list carries a source span
\* that is not null, the ops ingestion makes of its own included (the default Idle
\* trigger of a deferred block).  Ops of the model without a sourceSpan field are
\* created with the span of their node.
C23_EveryOpHasSourceSpan ==
  pc.phase = "ingest" =>
    \A u \in 1..Len(units) :
      /\ \A i \in 1..Len(units[u].create) :
           "sourceSpan" \in DOMAIN units[u].create[i]
             => units[u].create[i].sourceSpan # NullStr
      /\ \A i \in 1..Len(units[u].update) :
           "sourceSpan" \in DOMAIN units[u].update[i]
             => units[u].update[i].sourceSpan # NullStr

\* C29: ingestHostProperty leaves the ParsedProperty it is given as it was, so that
\* the same input ingested into a second job gives binding ops of the same kind and
\* name as in the first.
C29_HostInputUnchanged ==
  pc.phase = "ingestHostBinding" =>
    /\ cur = snap
    /\ Len(units) = 2 =>
         /\ Len(units[2].update) = Len(units[1].update)
         /\ \A i \in 1..Len(units[1].update) :
              /\ units[2].update[i].bindingKind = units[1].update[i].bindingKind
              /\ units[2].update[i].name = units[1].update[i].name

C25_CommentsIgnored ==
  LET node == snap.template[1]
      children == IF node.kind = "IfBlock" THEN node.branches[1].children ELSE node.children
      elements == SelectSeq(children, LAMBDA c : c.kind = "Element")
      wrappers == SelectSeq(units[pc.u].create,
                            LAMBDA op : op.kind \in {"Template", "RepeaterCreate"})
      copied == SelectSeq(units[pc.u].update, LAMBDA op : op.kind = "Binding")
  IN (/\ IngestedFirst /\ node.kind \in {"IfBlock", "ForLoopBlock"}
      /\ node.kind = "IfBlock" => Len(node.branches) = 1
      /\ node.kind = "ForLoopBlock" => ~node.empty.present
      /\ Len(elements) = 1
      /\ \A i \in 1..Len(children) : children[i].kind \in {"Element", "Comment"}
      /\ \E i \in 1..Len(children) : children[i].kind = "Comment")
     => /\ err = "none"
        /\ wrappers # <<>>
        /\ wrappers[1].aux = elements[1].name
        /\ [i \in 1..Len(copied) |-> copied[i].name]
             = [i \in 1..Len(elements[1].attributes) |-> elements[1].attributes[i].name]

\* C27: after a template is ingested, the ElementStart and ElementEnd ops of every
\* create list are balanced and nested, an end closing the start of its xref, and for
\* every element with an i18n message the I18nStart op is the op right after its
\* ElementStart and the I18nEnd op of the same xref the op right before its
\* ElementEnd, whatever bindings, listeners and children the element has.
C27_ElementOpsNested ==
  LET RECURSIVE Open(_, _, _)
      \* the xrefs of the elements open after ops[1..i], innermost last; <<NULL>> for
      \* an end that closes no start or another one than the innermost
      Open(ops, i, stack) ==
        IF i > Len(ops) THEN stack
        ELSE IF ops[i].kind = "ElementStart" THEN Open(ops, i + 1, Append(stack, ops[i].xref))
        ELSE IF ops[i].kind = "ElementEnd"
        THEN IF stack # <<>> /\ stack[Len(stack)] = ops[i].xref
             THEN Open(ops, i + 1, SubSeq(stack, 1, Len(stack) - 1))
             ELSE <<NULL>>
        ELSE Open(ops, i + 1, stack)
      \* the I18nStart ops placed right after an ElementStart whose I18nEnd is placed
      \* right before the ElementEnd of that element
      Placed(ops) ==
        {s \in 2..Len(ops) :
           /\ ops[s].kind = "I18nStart" /\ ops[s - 1].kind = "ElementStart"
           /\ \E e \in (s + 1)..(Len(ops) - 1) :
                /\ ops[e].kind = "I18nEnd" /\ ops[e].xref = ops[s].xref
                /\ ops[e + 1].kind = "ElementEnd" /\ ops[e + 1].xref = ops[s - 1].xref}
      node == snap.template[1]
      \* the elements with a message ingested into the view at hand: the element, and
      \* the elements among its children
      messages ==
        (IF node.i18n = "Message" THEN {0} ELSE {})
        \cup {i \in 1..Len(node.children) :
                node.children[i].kind = "Element" /\ node.children[i].i18n = "Message"}
  IN (IngestedFirst /\ err = "none")
     => /\ \A u \in 1..Len(units) : Open(units[u].create, 1, <<>>) = <<>>
        /\ node.kind = "Element" =>
             /\ Cardinality(Placed(units[pc.u].create)) = Cardinality(messages)
             /\ \A s \in 1..Len(units[pc.u].create) :
                  units[pc.u].create[s].kind = "I18nStart" => s \in Placed(units[pc.u].create)

\* an element with a message, a listener and a child element with a message and a
\* listener was ingested: two blocks, each right inside its element
C27_Witness ==
  LET node == snap.template[1]
      ops == units[pc.u].create
  IN /\ IngestedFirst /\ err = "none"
     /\ node.kind = "Element" /\ node.i18n = "Message" /\ node.outputs # <<>>
     /\ \E i \in 1..Len(node.children) :
          node.children[i].kind = "Element" /\ node.children[i].i18n = "Message"
     /\ ops[1].kind = "ElementStart" /\ ops[2].kind = "I18nStart" /\ ops[3].kind = "Listener"
     /\ ops[Len(ops)].kind = "ElementEnd" /\ ops[Len(ops) - 1].kind = "I18nEnd"
     /\ Cardinality({s \in 1..Len(ops) : ops[s].kind = "I18nStart"}) = 2

\* the places of the create ops of a job
C28_Ops(job) == UNION {{<<u, i>> : i \in 1..Len(job[u].create)} : u \in 1..Len(job)}

\* the context ops createI18nContexts is to push for the job it was given: one per
\* root I18nStart op, one per IcuStart op whose message differs from that of the
\* I18nStart op before it (no I18nEnd op between them)
C28_Expected ==
  LET Ops == C28_Ops(snap)
      Before(p, q) == p[1] < q[1] \/ (p[1] = q[1] /\ p[2] < q[2])
      Kind(p) == snap[p[1]].create[p[2]].kind
      Roots == {p \in Ops : Kind(p) = "I18nStart" /\ isRootI18nBlock(snap[p[1]].create[p[2]])}
      Block(p) ==
        {b \in Ops :
           /\ Kind(b) = "I18nStart"
           /\ Before(b, p)
           /\ \A q \in Ops : (Before(b, q) /\ Before(q, p))
                                => Kind(q) \notin {"I18nStart", "I18nEnd"}}
      Icus == {p \in Ops :
                 /\ Kind(p) = "IcuStart"
                 /\ \E b \in Block(p) :
                      snap[b[1]].create[b[2]].message # snap[p[1]].create[p[2]].message}
  IN Cardinality(Roots) + Cardinality(Icus)

\* a turn of the first loop at an I18nContext op pushes nothing and does not abort
C28_ContextOpTurn ==
  (pc.at = "first" /\ units[cur.u].create[cur.i].kind = "I18nContext")
    => (units' = units /\ pc'.at # "aborted")

C26_NoEventsNoReplay ==
  (/\ pc.phase = "withEventReplay" /\ pc.at = "stable" /\ cur.isPlatformBrowser
   /\ ~containerOfApp(cur.ngContracts, cur.appId).defined)
    => /\ err = "none"
       /\ ~cur.eventContract.created
       /\ \A el \in DOMAIN cur.elements : cur.elements[el].jsaction = snap.elements[el].jsaction
       /\ cur.impl = "record"

\* C30: after the constructor and any setTheme calls and colour-scheme change events,
\* the document element carries exactly one of the two mode classes, and with the
\* theme signal 'dark' or 'light' it is the class of that theme.
C30_ClassMatchesTheme ==
  (pc.phase = "ThemeManager" /\ pc.at = "constructed" /\ cur.isPlatformBrowser)
    => /\ Cardinality(cur.classList \cap {DARK_MODE_CLASS_NAME, LIGHT_MODE_CLASS_NAME}) = 1
       /\ cur.theme = "dark" => DARK_MODE_CLASS_NAME \in cur.classList
       /\ cur.theme = "light" => LIGHT_MODE_CLASS_NAME \in cur.classList

====
